---- MODULE Spec2Model ----
(***************************************************************************)
(* Chat session state machine of flexspace-agent-demo:                     *)
(*   ChatStateStore      (public/src/services/ChatStateStore.js)           *)
(*   ChatOrchestrator    (services/ChatOrchestrator.js)                    *)
(*   RetellApiClient     (services/RetellApiClient.js)                     *)
(*   VariableExtractor   (services/VariableExtractor.js)                   *)
(*   ChatHistoryStore    (services/ChatHistoryStore.js)                    *)
(*   ChatWidget, ChatApp (the listeners on the orchestrator's event bus)   *)
(* JavaScript values are encoded as strings: "undefined", "null", "true",  *)
(* "false", numbers as their decimal text.  The null chat id is 0.         *)
(***************************************************************************)
EXTENDS Integers, Sequences, FiniteSets, TLC

VARIABLES
  chatId,           \* ChatStateStore._chatId (0 = null)
  messages,         \* ChatStateStore._messages
  isActive,         \* ChatStateStore._isActive
  variables,        \* ChatStateStore._variables
  createdAt,        \* ChatStateStore._createdAt (0 = null)
  shouldResetChat,  \* ChatStateStore._shouldResetChat
  history,          \* ChatHistoryStore.history
  storage,          \* localStorage['flexspace_chat_history'], parsed
  events,           \* the events emitted on the orchestrator's EventBus by the last step, in order
  now,              \* Date.now()
  uiChatEnded,      \* ChatWidget.isChatEnded
  isProcessing,     \* ChatWidget.isProcessing
  uiErrors,         \* number of error notices MessageList.showError put up in the last step
  isChatWidgetOpen, \* ChatApp.isChatWidgetOpen
  inflight,         \* the calls of the orchestrator suspended at an await
  pollTimers,       \* deadlines of the pending setTimeout(..., 500) of sendMessage
  greetTimers,      \* deadlines of the pending setTimeout(..., 300) of toggleFloatingChat
  last,             \* what the calls that ended in the last step returned, threw or logged
  ops,              \* number of calls started so far
  resetPending,     \* history: shouldResetChat was raised and createChat not called since
  caller,           \* who drives the orchestrator: "api" (a programmatic client) or "ui" (the user)
  listeners,        \* EventBus.listeners of a bus of its own: event -> handlers in insertion order
  busLog,           \* what the last call of that bus did: handlers invoked, exceptions logged
  wrappers,         \* the wrappers EventBus.once made so far, with how often each callback ran
  arg,              \* the argument a client passes to a function that keeps no state
  ret,              \* what that function returned for it
  currentChatId,    \* api/create-chat: the module's currentChatId (0 = null)
  vendorChats,      \* the chats the vendor holds, by id, with their status
  requests,         \* the requests to api/create-chat suspended at an await
  responses         \* the answers api/create-chat has given, in order

vars == << chatId, messages, isActive, variables, createdAt, shouldResetChat,
           history, storage, events, now, uiChatEnded, isProcessing, uiErrors,
           isChatWidgetOpen, inflight, pollTimers, greetTimers,
           last, ops, resetPending, caller, listeners, busLog, wrappers,
           arg, ret, currentChatId, vendorChats, requests, responses >>

----------------------------------------------------------------------------
(* Bounds of the model *)

MaxOps == 3        \* calls started in one behaviour
MaxNow == 6000     \* the clock stops advancing here
MaxChatId == 2     \* chat ids the backend hands out
MaxHistoryCalls == 3  \* calls of the history store in one behaviour
MaxHistoryNow == 3    \* the clock of the history store stops here
MaxFill == 51         \* sessions saved one after the other to fill the history

(* Program constants *)

Null == 0
GraceMs == 2000
(* the model's clock advances by one grace window at a time *)
Tick == GraceMs
ResponseDelay == 2000
PollDelay == 500
GreetDelay == 300
LocalBase == 100000
MAX_CHATS == 50

Undef == "undefined"
ChatIds == 1..MaxChatId

----------------------------------------------------------------------------
(* Text is a sequence of words; includes is String.prototype.includes on it *)

RECURSIVE includesFrom(_, _, _)
includesFrom(text, needle, i) ==
  IF i + Len(needle) - 1 > Len(text) THEN FALSE
  ELSE IF SubSeq(text, i, i + Len(needle) - 1) = needle THEN TRUE
  ELSE includesFrom(text, needle, i + 1)

includes(text, needle) == includesFrom(text, needle, 1)

----------------------------------------------------------------------------
(* Payloads of the backend proxy *)

NoObj == [present |-> FALSE, obj |-> << >>]

EmptyData ==
  [ chat_status |-> Undef, status |-> Undef, ended |-> Undef, is_ended |-> Undef,
    finished |-> Undef, ended_at |-> Undef, finished_at |-> Undef, end_time |-> Undef,
    isArray_messages |-> FALSE, messages |-> << >>,
    response |-> Undef, output_text |-> Undef,
    variables |-> NoObj, metadata_variables |-> NoObj,
    extracted_variables |-> NoObj, state_variables |-> NoObj ]

AgentTurn(c) == [role |-> "agent", content |-> c]
UserTurn(c) == [role |-> "user", content |-> c]

(* /api/send-message answers 2xx with the vendor's completion *)
SendResponses ==
  { [EmptyData EXCEPT !.isArray_messages = TRUE,
                      !.messages = << UserTurn("Hello"), AgentTurn("Hi there!") >>,
                      !.ended_at = "null"],
    [EmptyData EXCEPT !.response = "Goodbye", !.chat_status = "ended",
                      !.metadata_variables =
                         [present |-> TRUE,
                          obj |-> [k \in {"first_name", "email"} |->
                                    IF k = "first_name" THEN "Ann" ELSE ""]]],
    [EmptyData EXCEPT !.response = "Noted",
                      !.variables =
                         [present |-> TRUE,
                          obj |-> [k \in {"first_name", "email"} |->
                                    IF k = "first_name" THEN "Bob" ELSE "bob@x"]]] }

(* /api/send-message answers non-2xx with this body *)
SendErrorBodies ==
  { << "error", "Chat", "already", "ended" >>,
    << "the", "chat", "ended" >>,
    << "Chat", "Ended" >>,
    << >> }

(* /api/get-chat answers with a status code and, on 2xx, the vendor's chat *)
StatusResponses ==
  { [code |-> 200, body |-> [EmptyData EXCEPT !.chat_status = "ongoing"]],
    [code |-> 404, body |-> EmptyData],
    [code |-> 500, body |-> EmptyData] }

----------------------------------------------------------------------------
(* VariableExtractor *)

(* string mode that knows only one of the two texts *)
isChatEndedText_firstOnly(data) ==
  includes(data, << "Chat", "already", "ended" >>)

isChatEndedText(data) ==
  includes(data, << "Chat", "already", "ended" >>) \/ includes(data, << "chat", "ended" >>)

(* object mode that takes a timestamp field that is null for an end *)
isChatEnded_nullTimestamps(data) ==
  \/ data.chat_status = "ended"
  \/ data.status \in {"ended", "finished", "completed", "error"}
  \/ data.ended = "true"
  \/ data.is_ended = "true"
  \/ data.finished = "true"
  \/ data.ended_at # Undef
  \/ data.finished_at # Undef
  \/ data.end_time # Undef

isChatEnded(data) ==
  \/ data.chat_status = "ended"
  \/ data.status = "ended"
  \/ data.status = "finished"
  \/ data.status = "completed"
  \/ data.status = "error"
  \/ data.ended = "true"
  \/ data.is_ended = "true"
  \/ data.finished = "true"
  \/ (data.ended_at # "null" /\ data.ended_at # Undef)
  \/ (data.finished_at # "null" /\ data.finished_at # Undef)
  \/ (data.end_time # "null" /\ data.end_time # Undef)

Truthy(v) == v \notin {Undef, "null", ""}

RECURSIVE lastAgentMsg(_, _)
lastAgentMsg(msgs, i) ==
  IF i = 0 THEN 0
  ELSE IF msgs[i].role = "agent" /\ Truthy(msgs[i].content) THEN i
  ELSE lastAgentMsg(msgs, i - 1)

extractBotResponse(data) ==
  IF data.isArray_messages /\ lastAgentMsg(data.messages, Len(data.messages)) # 0
  THEN data.messages[lastAgentMsg(data.messages, Len(data.messages))].content
  ELSE IF data.response \notin {Undef, "null"} THEN data.response
  ELSE IF data.output_text \notin {Undef, "null"} THEN data.output_text
  ELSE "No response received"

(* the four places a variables object may sit in, in search order *)
findVariables(data) ==
  IF data.variables.present THEN data.variables
  ELSE IF data.metadata_variables.present THEN data.metadata_variables
  ELSE IF data.extracted_variables.present THEN data.extracted_variables
  ELSE IF data.state_variables.present THEN data.state_variables
  ELSE NoObj

(* an object is a function from its keys to their values *)
filtered(obj) ==
  [k \in {j \in DOMAIN obj : obj[j] \notin {"null", Undef, ""}} |-> obj[k]]

extract(data) ==
  IF ~findVariables(data).present THEN NoObj
  ELSE IF DOMAIN filtered(findVariables(data).obj) # {}
       THEN [present |-> TRUE, obj |-> filtered(findVariables(data).obj)]
       ELSE NoObj

----------------------------------------------------------------------------
(* RetellApiClient.getChatDetails: what the caller gets for a backend answer *)

Ok(r) == r.code >= 200 /\ r.code <= 299

(* getChatDetails that treats 404 like any other failure *)
getChatDetails_throwsOn404(r) ==
  IF ~Ok(r) THEN [threw |-> TRUE, data |-> EmptyData]
  ELSE [threw |-> FALSE, data |-> r.body]

getChatDetails(r) ==
  IF ~Ok(r)
  THEN IF r.code = 404
       THEN [threw |-> FALSE,
             data |-> [EmptyData EXCEPT !.status = "ended", !.ended = "true",
                                        !.chat_status = "ended"]]
       ELSE [threw |-> TRUE, data |-> EmptyData]
  ELSE [threw |-> FALSE, data |-> r.body]

(* RetellApiClient.sendMessage: the message of the Error thrown on non-2xx *)
sendMessageError(text) ==
  IF text # << >> THEN text ELSE << "Failed", "to", "send", "message" >>

----------------------------------------------------------------------------
(* The state that synchronous code reads and writes, as one record; what a *)
(* step emits, shows and returns is collected from scratch in every step    *)

NoLast ==
  [create |-> "none", send |-> "none", poll |-> "none", endc |-> "none", logged |-> "none"]

World ==
  [ chatId |-> chatId, messages |-> messages, isActive |-> isActive,
    variables |-> variables, createdAt |-> createdAt,
    shouldResetChat |-> shouldResetChat, history |-> history, storage |-> storage,
    events |-> << >>,
    uiChatEnded |-> uiChatEnded, isProcessing |-> isProcessing,
    uiErrors |-> 0, inflight |-> inflight, pollTimers |-> pollTimers,
    last |-> NoLast, resetPending |-> resetPending ]

(* the stand-alone EventBus is not touched *)
NoBusLog == [op |-> "none", event |-> "none", calls |-> << >>, removed |-> {},
             threw |-> FALSE, logged |-> 0]

BusIdle == UNCHANGED << listeners, busLog, wrappers >>

(* no function without state is being called on its own *)
NoCall == [op |-> "none"]

PureIdle == UNCHANGED << arg, ret >>

PureInit == arg = "none" /\ ret = NoCall

(* no request reaches the backend function api/create-chat *)
BackendIdle == UNCHANGED << currentChatId, vendorChats, requests, responses >>

BackendInit ==
  /\ currentChatId = 0
  /\ vendorChats = << >>
  /\ requests = << >>
  /\ responses = << >>

BusInit ==
  /\ listeners = [e \in {"chatEnded", "error"} |-> << >>]
  /\ busLog = NoBusLog
  /\ wrappers = << >>

SetWorld(w) ==
  /\ chatId' = w.chatId
  /\ messages' = w.messages
  /\ isActive' = w.isActive
  /\ variables' = w.variables
  /\ createdAt' = w.createdAt
  /\ shouldResetChat' = w.shouldResetChat
  /\ history' = w.history
  /\ storage' = w.storage
  /\ events' = w.events
  /\ uiChatEnded' = w.uiChatEnded
  /\ isProcessing' = w.isProcessing
  /\ uiErrors' = w.uiErrors
  /\ inflight' = w.inflight
  /\ pollTimers' = w.pollTimers
  /\ last' = w.last
  /\ resetPending' = w.resetPending
  /\ BusIdle
  /\ PureIdle
  /\ BackendIdle

----------------------------------------------------------------------------
(* ChatStateStore *)

initChat(w, id) ==
  [w EXCEPT !.chatId = id, !.isActive = TRUE, !.messages = << >>, !.createdAt = now]

Message(role, content) == [role |-> role, content |-> content, timestamp |-> now]

(* addMessage that puts the message in front *)
addMessage_unshift(w, role, content) ==
  [w EXCEPT !.messages = << Message(role, content) >> \o @]

addMessage(w, role, content) ==
  [w EXCEPT !.messages = Append(@, Message(role, content))]

setEnded(w) == [w EXCEPT !.isActive = FALSE]

(* setVariable that replaces the whole mapping *)
setVariable_replacesAll(w, name, value) ==
  [w EXCEPT !.variables = [k \in {name} |-> value]]

setVariable(w, name, value) ==
  [w EXCEPT !.variables = [k \in DOMAIN @ \cup {name} |-> IF k = name THEN value ELSE @[k]]]

(* isActiveChat that looks at the chat id only *)
isActiveChat_idOnly(w) == w.chatId # Null

isActiveChat(w) == w.isActive /\ w.chatId # Null

(* grace window with the comparison turned around *)
isRecentlyCreated_inverted(w, withinMs) ==
  w.createdAt # Null /\ (now - w.createdAt) > withinMs

isRecentlyCreated(w, withinMs) ==
  w.createdAt # Null /\ (now - w.createdAt) < withinMs

(* reset that forgets to clear the active flag *)
state_reset_keepsActive(w) ==
  [w EXCEPT !.chatId = Null, !.messages = << >>,
            !.variables = << >>, !.createdAt = Null]

state_reset(w) ==
  [w EXCEPT !.chatId = Null, !.messages = << >>, !.isActive = FALSE,
            !.variables = << >>, !.createdAt = Null]

----------------------------------------------------------------------------
(* ChatHistoryStore *)

RECURSIVE findIndex(_, _, _)
findIndex(h, id, i) ==
  IF i > Len(h) THEN 0
  ELSE IF h[i].id = id THEN i
  ELSE findIndex(h, id, i + 1)

(* Array.prototype.slice(-MAX_CHATS) *)
slice(h) ==
  IF Len(h) <= MAX_CHATS THEN h ELSE SubSeq(h, Len(h) - MAX_CHATS + 1, Len(h))

(* save: what is written to localStorage *)
save(h) == slice(h)

(* load: what the constructor reads back from localStorage *)
load(stored) == stored

(* saveChat that pushes without looking for the id *)
saveChat_alwaysPush(h, id, msgs, vs) ==
  IF Len(msgs) = 0 THEN h
  ELSE Append(h, [ id |-> IF id # Null THEN id ELSE LocalBase + now,
                   timestamp |-> now,
                   messages |-> [i \in 1..Len(msgs) |->
                                  [role |-> msgs[i].role, content |-> msgs[i].content,
                                   timestamp |-> msgs[i].timestamp]],
                   variables |-> vs ])

(* the entry's date and preview are derived from timestamp and messages *)
saveChat(h, id, msgs, vs) ==
  IF Len(msgs) = 0 THEN h
  ELSE LET chatSession ==
             [ id |-> IF id # Null THEN id ELSE LocalBase + now,
               timestamp |-> now,
               messages |-> [i \in 1..Len(msgs) |->
                              [role |-> msgs[i].role, content |-> msgs[i].content,
                               timestamp |-> msgs[i].timestamp]],
               variables |-> vs ]
           existingIndex == findIndex(h, id, 1)
       IN IF existingIndex >= 1
          THEN [h EXCEPT ![existingIndex] = chatSession]
          ELSE Append(h, chatSession)

getAll(h) == [k \in 1..Len(h) |-> h[Len(h) + 1 - k]]

(* getById that returns the oldest entry whatever the id *)
getById_first(h, id) ==
  IF Len(h) >= 1 THEN [found |-> TRUE, chat |-> << h[1] >>]
  ELSE [found |-> FALSE, chat |-> << >>]

getById(h, id) ==
  IF findIndex(h, id, 1) >= 1 THEN [found |-> TRUE, chat |-> << h[findIndex(h, id, 1)] >>]
  ELSE [found |-> FALSE, chat |-> << >>]

RECURSIVE deleteChat(_, _)
deleteChat(h, id) ==
  IF h = << >> THEN << >>
  ELSE IF Head(h).id # id THEN << Head(h) >> \o deleteChat(Tail(h), id)
  ELSE deleteChat(Tail(h), id)

clearAll == << >>

----------------------------------------------------------------------------
(* ChatWidget and ChatApp: the listeners on the bus and what they call *)

Event(name, id, auto, content) ==
  [name |-> name, chatId |-> id, autoEnded |-> auto, content |-> content]

setProcessing(w, processing) == [w EXCEPT !.isProcessing = processing]

showError(w) == [w EXCEPT !.uiErrors = @ + 1]

handleChatEnded(w) == [w EXCEPT !.uiChatEnded = TRUE]

clearMessages(w) == [w EXCEPT !.uiChatEnded = FALSE]

saveToHistory(w) ==
  IF Len(w.messages) > 0
  THEN LET h == saveChat(w.history, w.chatId, w.messages, w.variables)
       IN [w EXCEPT !.history = h, !.storage = save(h)]
  ELSE w

reset(w) == state_reset(saveToHistory(w))

cleanupChatConversation(w) ==
  [reset(clearMessages(w)) EXCEPT !.shouldResetChat = TRUE, !.resetPending = TRUE]

(* emit with a messageReceived listener that leaves the busy latch set *)
emit_keepsBusy(w, e) ==
  LET w1 == [w EXCEPT !.events = Append(@, e)]
  IN CASE e.name = "error" -> setProcessing(showError(w1), FALSE)
       [] e.name = "chatEnded" ->
            IF ~isChatWidgetOpen
            THEN cleanupChatConversation(handleChatEnded(w1))
            ELSE handleChatEnded(w1)
       [] OTHER -> w1

(* EventBus.emit with the listeners of ChatWidget.setupServiceListeners and *)
(* ChatApp.setupChatService, in registration order                          *)
emit(w, e) ==
  LET w1 == [w EXCEPT !.events = Append(@, e)]
  IN CASE e.name = "messageReceived" -> setProcessing(w1, FALSE)
       [] e.name = "error" -> setProcessing(showError(w1), FALSE)
       [] e.name = "chatEnded" ->
            IF ~isChatWidgetOpen
            THEN cleanupChatConversation(handleChatEnded(w1))
            ELSE handleChatEnded(w1)
       [] OTHER -> w1

----------------------------------------------------------------------------
(* ChatOrchestrator: the synchronous stretches of its operations *)

trim(message) == IF message = "   " THEN "" ELSE message

endedTransition(w) ==
  LET w1 == setEnded(saveToHistory(w))
  IN emit(w1, Event("chatEnded", w1.chatId, "true", ""))

RECURSIVE setVariables(_, _, _)
setVariables(w, obj, keys) ==
  IF keys = {} THEN w
  ELSE LET k == CHOOSE j \in keys : TRUE
       IN setVariables(setVariable(w, k, obj[k]), obj, keys \ {k})

(* sendMessage that records the user message even when told to skip it *)
sendMessage_begin_ignoresSkip(w, message, skipUserMessage) ==
  IF trim(message) # ""
  THEN emit(addMessage(w, "user", message), Event("messageSent", Null, Undef, message))
  ELSE w

(* sendMessage up to the await of the gateway call *)
sendMessage_begin(w, message, skipUserMessage) ==
  IF ~skipUserMessage /\ trim(message) # ""
  THEN emit(addMessage(w, "user", message), Event("messageSent", Null, Undef, message))
  ELSE w

(* sendMessage from the gateway's answer to the delay before messageReceived *)
(* sendMessage that stops once the response has ended the session *)
sendMessage_data_stopsWhenEnded(w, data) ==
  IF isChatEnded(data) THEN endedTransition(w)
  ELSE LET vs == extract(data)
           w2 == IF vs.present
                 THEN emit(setVariables(w, vs.obj, DOMAIN vs.obj),
                           Event("variablesUpdated", Null, Undef, ""))
                 ELSE w
       IN addMessage(w2, "agent", extractBotResponse(data))

sendMessage_data(w, data) ==
  LET w1 == IF isChatEnded(data) THEN endedTransition(w) ELSE w
      vs == extract(data)
      w2 == IF vs.present
            THEN emit(setVariables(w1, vs.obj, DOMAIN vs.obj),
                      Event("variablesUpdated", Null, Undef, ""))
            ELSE w1
  IN addMessage(w2, "agent", extractBotResponse(data))

(* sendMessage after the delay *)
sendMessage_received(w, botContent) ==
  emit(w, Event("messageReceived", Null, Undef, botContent))

(* the catch block of sendMessage *)
sendMessage_catch(w, errorMessage) ==
  IF isChatEndedText(errorMessage)
  THEN endedTransition(w)
  ELSE emit(w, Event("error", Null, Undef, ""))

(* checkIfChatEnded that takes a failed status request for the end *)
checkIfChatEnded_data_endsOnFailure(w, r) ==
  LET res == getChatDetails(r)
  IN IF res.threw THEN [w |-> endedTransition(w), ret |-> "true"]
     ELSE IF isChatEnded(res.data) THEN [w |-> endedTransition(w), ret |-> "true"]
     ELSE [w |-> w, ret |-> "false"]

(* checkIfChatEnded from the gateway's answer on; ret is what it returns *)
checkIfChatEnded_data(w, r) ==
  LET res == getChatDetails(r)
  IN IF res.threw THEN [w |-> [w EXCEPT !.last.logged = "error"], ret |-> "false"]
     ELSE IF isChatEnded(res.data) THEN [w |-> endedTransition(w), ret |-> "true"]
     ELSE [w |-> w, ret |-> "false"]

(* endChat that announces the end as an automatic one *)
endChat_data_autoEnded(w, ok) ==
  IF ok THEN emit(state_reset(w), Event("chatEnded", w.chatId, "true", ""))
  ELSE emit(w, Event("error", Null, Undef, ""))

(* endChat that clears the session also when the gateway call failed *)
endChat_data_resetsOnFailure(w, ok) ==
  IF ok THEN emit(state_reset(w), Event("chatEnded", w.chatId, Undef, ""))
  ELSE emit(state_reset(w), Event("error", Null, Undef, ""))

(* endChat from the gateway's answer on *)
endChat_data(w, ok) ==
  IF ok THEN emit(state_reset(w), Event("chatEnded", w.chatId, Undef, ""))
  ELSE emit(w, Event("error", Null, Undef, ""))

(* createChat that clears the session when the gateway call failed *)
createChat_data_clearsOnFailure(w, ok, id) ==
  IF ok THEN emit(initChat(w, id), Event("chatCreated", id, Undef, ""))
  ELSE emit(state_reset(w), Event("error", Null, Undef, ""))

(* createChat from the gateway's answer on *)
createChat_data(w, ok, id) ==
  IF ok THEN emit(initChat(w, id), Event("chatCreated", id, Undef, ""))
  ELSE emit(w, Event("error", Null, Undef, ""))

----------------------------------------------------------------------------
(* Calls: an async function suspended at an await *)

Call(op, pc, id, origin) ==
  [ op |-> op, pc |-> pc, id |-> id, origin |-> origin, message |-> "",
    skipUserMessage |-> FALSE, resetChat |-> FALSE, botContent |-> "", deadline |-> 0 ]

Remove(seq, i) == SubSeq(seq, 1, i - 1) \o SubSeq(seq, i + 1, Len(seq))

NotActiveMessage == << "No", "active", "chat", "session" >>
CreateFailedMessage == << "Failed", "to", "create", "chat", "session" >>

(* what the caller does once the promise it awaits is rejected:             *)
(* the catch blocks of sendInitialGreeting and handleSendMessage            *)
widgetCatch(w, origin, errorMessage) ==
  CASE origin = "greeting" -> setProcessing(w, FALSE)
    [] origin = "usersend" ->
         setProcessing(IF ~includes(errorMessage, << "Chat", "has", "ended" >>)
                       THEN showError(w) ELSE w, FALSE)
    [] OTHER -> w

(* sendMessage without its guard on the session being active *)
sendMessage_unguarded(w, message, skipUserMessage, origin) ==
  LET w1 == sendMessage_begin(w, message, skipUserMessage)
  IN [w1 EXCEPT !.inflight =
        Append(@, [Call("send", "await", w1.chatId, origin)
                     EXCEPT !.message = message,
                            !.skipUserMessage = skipUserMessage])]

sendMessage(w, message, skipUserMessage, origin) ==
  IF ~isActiveChat(w)
  THEN widgetCatch([w EXCEPT !.last.send = "notactive"], origin, NotActiveMessage)
  ELSE LET w1 == sendMessage_begin(w, message, skipUserMessage)
       IN [w1 EXCEPT !.inflight =
             Append(@, [Call("send", "await", w1.chatId, origin)
                          EXCEPT !.message = message,
                                 !.skipUserMessage = skipUserMessage])]

createChat(w, resetChat, origin, message) ==
  [w EXCEPT !.inflight =
     Append(@, [Call("create", "await", Null, origin)
                  EXCEPT !.resetChat = resetChat, !.message = message]),
            !.resetPending = FALSE]

checkIfChatEnded(w) ==
  IF w.chatId = Null \/ ~w.isActive THEN [w EXCEPT !.last.poll = "inactive"]
  ELSE IF isRecentlyCreated(w, GraceMs) THEN [w EXCEPT !.last.poll = "grace"]
  ELSE [w EXCEPT !.inflight = Append(@, Call("poll", "await", w.chatId, "api"))]

endChat(w) ==
  IF w.chatId = Null \/ ~w.isActive THEN [w EXCEPT !.last.endc = "noop"]
  ELSE [w EXCEPT !.inflight = Append(@, Call("end", "await", w.chatId, "api"))]

sendInitialGreeting(w) ==
  IF w.isProcessing \/ isActiveChat(w) THEN w
  ELSE createChat(setProcessing(w, TRUE), w.shouldResetChat, "greeting", "Hello")

handleSendMessage(w, message) ==
  IF message = "" \/ w.isProcessing \/ w.uiChatEnded THEN w
  ELSE LET w1 == setProcessing(w, TRUE)
       IN IF ~isActiveChat(w1)
          THEN createChat(w1, FALSE, "usersend", message)
          ELSE sendMessage(w1, message, FALSE, "usersend")

handleStartNewConversation(w) ==
  LET w1 == reset([clearMessages(w) EXCEPT !.uiChatEnded = FALSE])
  IN sendInitialGreeting([w1 EXCEPT !.shouldResetChat = TRUE, !.resetPending = TRUE])

----------------------------------------------------------------------------
(* Initial state: the constructors of ChatStateStore, ChatHistoryStore,     *)
(* ChatWidget and ChatApp                                                   *)

Init ==
  /\ chatId = Null
  /\ messages = << >>
  /\ isActive = FALSE
  /\ variables = << >>
  /\ createdAt = Null
  /\ shouldResetChat = FALSE
  /\ history = << >>
  /\ storage = << >>
  /\ events = << >>
  /\ now = Tick
  /\ uiChatEnded = FALSE
  /\ isProcessing = FALSE
  /\ uiErrors = 0
  /\ caller \in {"api", "ui"}
  /\ isChatWidgetOpen \in IF caller = "api" THEN BOOLEAN ELSE {FALSE}
  /\ inflight = << >>
  /\ pollTimers = {}
  /\ greetTimers = {}
  /\ last = NoLast
  /\ resetPending = FALSE
  /\ ops = 0
  /\ BusInit
  /\ BackendInit
  /\ PureInit

ApiTexts == {"book now", "   "}
UserTexts == {"book now"}

ApiStarted == caller = "api" /\ ops < MaxOps /\ ops' = ops + 1 /\ UNCHANGED caller
UiStarted == caller = "ui" /\ ops < MaxOps /\ ops' = ops + 1 /\ UNCHANGED caller

----------------------------------------------------------------------------
(* Calls of the orchestrator's public API by any caller *)

ApiCreateChat(resetChat) ==
  /\ ApiStarted
  /\ SetWorld(createChat(World, resetChat, "api", ""))
  /\ UNCHANGED << now, isChatWidgetOpen, greetTimers >>

ApiSendMessage(message, skipUserMessage) ==
  /\ ApiStarted
  /\ SetWorld(sendMessage(World, message, skipUserMessage, "api"))
  /\ UNCHANGED << now, isChatWidgetOpen, greetTimers >>

ApiCheckIfChatEnded ==
  /\ ApiStarted
  /\ SetWorld(checkIfChatEnded(World))
  /\ UNCHANGED << now, isChatWidgetOpen, greetTimers >>

ApiEndChat ==
  /\ ApiStarted
  /\ SetWorld(endChat(World))
  /\ UNCHANGED << now, isChatWidgetOpen, greetTimers >>

ApiReset ==
  /\ ApiStarted
  /\ SetWorld(reset(World))
  /\ UNCHANGED << now, isChatWidgetOpen, greetTimers >>

----------------------------------------------------------------------------
(* What the user does with the widget *)

(* ChatApp.toggleFloatingChat(true) *)
ToggleOpen ==
  /\ UiStarted
  /\ ~isChatWidgetOpen
  /\ isChatWidgetOpen' = TRUE
  /\ greetTimers' = IF ~isActiveChat(World) THEN greetTimers \cup {now + GreetDelay}
                    ELSE greetTimers
  /\ SetWorld(World)
  /\ UNCHANGED now

(* ChatApp.toggleFloatingChat(false) *)
ToggleClose ==
  /\ UiStarted
  /\ isChatWidgetOpen
  /\ isChatWidgetOpen' = FALSE
  /\ LET w1 == IF Len(messages) > 0 THEN saveToHistory(World) ELSE World
     IN SetWorld(IF isActiveChat(w1) THEN checkIfChatEnded(w1) ELSE w1)
  /\ UNCHANGED << now, greetTimers >>

(* the setTimeout of toggleFloatingChat fires *)
GreetTimerFire(d) ==
  /\ d \in greetTimers
  /\ now >= d
  /\ greetTimers' = greetTimers \ {d}
  /\ SetWorld(sendInitialGreeting(World))
  /\ UNCHANGED << now, isChatWidgetOpen, ops, caller >>

(* the user submits the input box *)
UserSend(message) ==
  /\ UiStarted
  /\ isChatWidgetOpen
  /\ ~isProcessing /\ ~uiChatEnded
  /\ SetWorld(handleSendMessage(World, message))
  /\ UNCHANGED << now, isChatWidgetOpen, greetTimers >>

(* the user clicks the button of the ended banner *)
StartNewConversation ==
  /\ UiStarted
  /\ isChatWidgetOpen
  /\ uiChatEnded
  /\ SetWorld(handleStartNewConversation(World))
  /\ UNCHANGED << now, isChatWidgetOpen, greetTimers >>

----------------------------------------------------------------------------
(* The backend answers and the timers fire *)

Taken(i) == [World EXCEPT !.inflight = Remove(@, i)]

CreateReturn(i, id) ==
  /\ i \in 1..Len(inflight)
  /\ inflight[i].op = "create"
  /\ LET c == inflight[i]
         w1 == [createChat_data(Taken(i), TRUE, id) EXCEPT !.last.create = "resolved"]
     IN SetWorld(CASE c.origin = "greeting" ->
                        sendMessage([w1 EXCEPT !.shouldResetChat = FALSE],
                                    "Hello", TRUE, "greeting")
                   [] c.origin = "usersend" ->
                        sendMessage(w1, c.message, FALSE, "usersend")
                   [] OTHER -> w1)
  /\ UNCHANGED << now, isChatWidgetOpen, greetTimers, ops, caller >>

CreateThrow(i) ==
  /\ i \in 1..Len(inflight)
  /\ inflight[i].op = "create"
  /\ LET c == inflight[i]
         w1 == [createChat_data(Taken(i), FALSE, Null) EXCEPT !.last.create = "rejected"]
     IN SetWorld(widgetCatch(w1, c.origin, CreateFailedMessage))
  /\ UNCHANGED << now, isChatWidgetOpen, greetTimers, ops, caller >>

SendReturn(i, data) ==
  /\ i \in 1..Len(inflight)
  /\ inflight[i].op = "send" /\ inflight[i].pc = "await"
  /\ LET w1 == sendMessage_data(World, data)
     IN SetWorld([w1 EXCEPT !.inflight[i].pc = "delay",
                            !.inflight[i].botContent = extractBotResponse(data),
                            !.inflight[i].deadline = now + ResponseDelay])
  /\ UNCHANGED << now, isChatWidgetOpen, greetTimers, ops, caller >>

SendDelayDone(i) ==
  /\ i \in 1..Len(inflight)
  /\ inflight[i].op = "send" /\ inflight[i].pc = "delay"
  /\ now >= inflight[i].deadline
  /\ LET w1 == sendMessage_received(Taken(i), inflight[i].botContent)
     IN SetWorld([w1 EXCEPT !.pollTimers = @ \cup {now + PollDelay},
                            !.last.send = "resolved"])
  /\ UNCHANGED << now, isChatWidgetOpen, greetTimers, ops, caller >>

SendThrow(i, body) ==
  /\ i \in 1..Len(inflight)
  /\ inflight[i].op = "send" /\ inflight[i].pc = "await"
  /\ LET c == inflight[i]
         w1 == [sendMessage_catch(Taken(i), sendMessageError(body))
                  EXCEPT !.last.send = "rejected"]
     IN SetWorld(widgetCatch(w1, c.origin, sendMessageError(body)))
  /\ UNCHANGED << now, isChatWidgetOpen, greetTimers, ops, caller >>

(* the setTimeout at the end of sendMessage fires *)
PollTimerFire(d) ==
  /\ d \in pollTimers
  /\ now >= d
  /\ LET w1 == [World EXCEPT !.pollTimers = @ \ {d}]
     IN SetWorld(IF w1.isActive THEN checkIfChatEnded(w1) ELSE w1)
  /\ UNCHANGED << now, isChatWidgetOpen, greetTimers, ops, caller >>

PollReturn(i, r) ==
  /\ i \in 1..Len(inflight)
  /\ inflight[i].op = "poll"
  /\ LET res == checkIfChatEnded_data(Taken(i), r)
     IN SetWorld([res.w EXCEPT !.last.poll = res.ret])
  /\ UNCHANGED << now, isChatWidgetOpen, greetTimers, ops, caller >>

EndReturn(i, ok) ==
  /\ i \in 1..Len(inflight)
  /\ inflight[i].op = "end"
  /\ LET w1 == endChat_data(Taken(i), ok)
     IN SetWorld([w1 EXCEPT !.last.endc = IF ok THEN "resolved" ELSE "rejected"])
  /\ UNCHANGED << now, isChatWidgetOpen, greetTimers, ops, caller >>

(* time passes; a timer that is due fires before the clock moves on *)
TimePasses ==
  /\ now + Tick <= MaxNow
  /\ \A d \in pollTimers \cup greetTimers : d > now
  /\ \A i \in 1..Len(inflight) : inflight[i].pc = "delay" => inflight[i].deadline > now
  /\ now' = now + Tick
  /\ SetWorld(World)
  /\ UNCHANGED << isChatWidgetOpen, greetTimers, ops, caller >>

Next ==
  \/ \E resetChat \in BOOLEAN : ApiCreateChat(resetChat)
  \/ \E message \in ApiTexts, skipUserMessage \in BOOLEAN :
       ApiSendMessage(message, skipUserMessage)
  \/ ApiCheckIfChatEnded
  \/ ApiEndChat
  \/ ApiReset
  \/ ToggleOpen
  \/ ToggleClose
  \/ \E d \in greetTimers : GreetTimerFire(d)
  \/ \E message \in UserTexts : UserSend(message)
  \/ StartNewConversation
  \/ \E i \in 1..Len(inflight), id \in ChatIds : CreateReturn(i, id)
  \/ \E i \in 1..Len(inflight) : CreateThrow(i)
  \/ \E i \in 1..Len(inflight), data \in SendResponses : SendReturn(i, data)
  \/ \E i \in 1..Len(inflight) : SendDelayDone(i)
  \/ \E i \in 1..Len(inflight), body \in SendErrorBodies : SendThrow(i, body)
  \/ \E d \in pollTimers : PollTimerFire(d)
  \/ \E i \in 1..Len(inflight), r \in StatusResponses : PollReturn(i, r)
  \/ \E i \in 1..Len(inflight), ok \in BOOLEAN : EndReturn(i, ok)
  \/ TimePasses

Spec == Init /\ [][Next]_vars

----------------------------------------------------------------------------
(* The history store on its own: ChatHistoryStore called by any client      *)
(* (the orchestrator's getHistory, getHistoryChat, deleteHistoryChat,       *)
(* clearHistory and saveToHistory, the ChatHistory panel), with caller      *)
(* "history" making a few arbitrary calls and caller "filler" saving        *)
(* MaxFill sessions one after the other                                     *)

HistoryInit ==
  /\ chatId = Null
  /\ messages = << >>
  /\ isActive = FALSE
  /\ variables = << >>
  /\ createdAt = Null
  /\ shouldResetChat = FALSE
  /\ history = << >>
  /\ storage = << >>
  /\ events = << >>
  /\ now = 1
  /\ uiChatEnded = FALSE
  /\ isProcessing = FALSE
  /\ uiErrors = 0
  /\ caller \in {"history", "filler"}
  /\ isChatWidgetOpen = FALSE
  /\ inflight = << >>
  /\ pollTimers = {}
  /\ greetTimers = {}
  /\ last = NoLast
  /\ resetPending = FALSE
  /\ ops = 0
  /\ BusInit
  /\ BackendInit
  /\ PureInit

(* the orchestrator and the widget are idle *)
SessionIdle ==
  UNCHANGED << chatId, messages, isActive, variables, createdAt, shouldResetChat,
               events, uiChatEnded, isProcessing, uiErrors, isChatWidgetOpen,
               inflight, pollTimers, greetTimers, last, resetPending, caller,
               listeners, busLog, wrappers, arg, ret,
               currentChatId, vendorChats, requests, responses >>

HistoryStarted == caller = "history" /\ ops < MaxHistoryCalls /\ ops' = ops + 1

(* the message lists and the variables a client saves *)
HistoryMessages ==
  { << >>,
    << [role |-> "user", content |-> "book now", timestamp |-> 1] >>,
    << [role |-> "agent", content |-> "Hi there!", timestamp |-> 1],
       [role |-> "user", content |-> "book now", timestamp |-> 2] >> }

HistoryVariables == [k \in {"first_name"} |-> "Ann"]

HistorySaveChat(id, msgs) ==
  /\ HistoryStarted
  /\ history' = saveChat(history, id, msgs, HistoryVariables)
  /\ storage' = IF Len(msgs) = 0 THEN storage ELSE save(history')
  /\ UNCHANGED now
  /\ SessionIdle

HistoryDeleteChat(id) ==
  /\ HistoryStarted
  /\ history' = deleteChat(history, id)
  /\ storage' = save(history')
  /\ UNCHANGED now
  /\ SessionIdle

HistoryClearAll ==
  /\ HistoryStarted
  /\ history' = clearAll
  /\ storage' = save(history')
  /\ UNCHANGED now
  /\ SessionIdle

(* ChatHistory.show, or the page is loaded again *)
HistoryReload ==
  /\ caller = "history"
  /\ history' = load(storage)
  /\ UNCHANGED << storage, now, ops >>
  /\ SessionIdle

HistoryTimePasses ==
  /\ caller = "history"
  /\ now < MaxHistoryNow
  /\ now' = now + 1
  /\ UNCHANGED << history, storage, ops >>
  /\ SessionIdle

(* one more session, with an id of its own, is saved a millisecond later *)
HistoryFill ==
  /\ caller = "filler"
  /\ Len(history) < MaxFill
  /\ history' = saveChat(history, Len(history) + 1,
                         << [role |-> "user", content |-> "book now", timestamp |-> now] >>,
                         HistoryVariables)
  /\ storage' = save(history')
  /\ now' = now + 1
  /\ UNCHANGED ops
  /\ SessionIdle

HistoryNext ==
  \/ \E id \in ChatIds \cup {Null}, msgs \in HistoryMessages : HistorySaveChat(id, msgs)
  \/ \E id \in ChatIds : HistoryDeleteChat(id)
  \/ HistoryClearAll
  \/ HistoryReload
  \/ HistoryTimePasses
  \/ HistoryFill

HistorySpec == HistoryInit /\ [][HistoryNext]_vars

----------------------------------------------------------------------------
(* Vocabulary of the properties *)

IsAutoEnded(e) == e.name = "chatEnded" /\ e.autoEnded = "true"

Count(evs, name) == Cardinality({k \in 1..Len(evs) : evs[k].name = name})
CountAutoEnded(evs) == Cardinality({k \in 1..Len(evs) : IsAutoEnded(evs[k])})

Active == isActive /\ chatId # Null

(* the error bodies that carry the vendor's end-of-session text *)
EndedBodies == { << "error", "Chat", "already", "ended" >>, << "the", "chat", "ended" >> }

(* the answer of /api/get-chat for a chat that no longer exists *)
NotFound == [code |-> 404, body |-> EmptyData]

(* the sessionEnded listener of ChatApp resets the store in this step *)
ListenerReset == ~isChatWidgetOpen /\ Count(events', "chatEnded") > 0

LastOf(seq) == seq[Len(seq)]

HasEntry(h, id) == \E k \in 1..Len(h) : h[k].id = id

----------------------------------------------------------------------------
(* C1 (as stated): once isActive has gone from true to false, no message is *)
(* appended to that session; messages grows again only after createChat has *)
(* reactivated the session with a new id.                                   *)
C1_NoAppendAfterEnded ==
  [][(~isActive /\ chatId # Null /\ ~isActive' /\ chatId' = chatId) =>
       Len(messages') <= Len(messages)]_vars

(* C1 (amended): a step that leaves the session inactive and changes        *)
(* messages to a non-empty list is the answer to a sendMessage that was     *)
(* accepted earlier, and what it appends is exactly that send's agent       *)
(* reply; no send is accepted and no user message is appended while the     *)
(* session is inactive.                                                     *)
C1_OnlyPendingReplyAfterEnded ==
  [][(~isActive' /\ messages' # messages /\ messages' # << >>) =>
       \E i \in 1..Len(inflight) :
          /\ inflight[i].op = "send" /\ inflight[i].pc = "await"
          /\ i <= Len(inflight') /\ inflight'[i].pc = "delay"
          /\ LastOf(messages').role = "agent"
          /\ LastOf(messages').content = inflight'[i].botContent
          /\ \/ messages' = Append(messages, LastOf(messages'))
             \/ messages' = << LastOf(messages') >>]_vars

C1_Witness ==
  /\ ~isActive /\ chatId # Null
  /\ \E i \in 1..Len(inflight) :
        /\ inflight[i].pc = "delay"
        /\ Len(messages) > 0
        /\ LastOf(messages).role = "agent"
        /\ LastOf(messages).content = inflight[i].botContent
  /\ Count(events, "chatEnded") = 0

C3_SecondDetectionNoOp ==
  [][\A i \in 1..Len(inflight) :
       ( /\ ~isActive /\ chatId # Null
         /\ inflight[i].op = "poll" /\ inflight[i].id = chatId
         /\ inflight' = Remove(inflight, i)
         /\ \E j \in 1..Len(inflight) :
               inflight[j].op = "send" /\ inflight[j].pc = "delay"
               /\ inflight[j].id = chatId )
       => (Count(events', "chatEnded") = 0 /\ history' = history)]_vars

(* C4 (as stated): a sendMessage on an active session whose gateway call    *)
(* fails with the end-of-session text publishes no error event and exactly  *)
(* one chatEnded{autoEnded:true}, leaves isActive false, and a history      *)
(* entry of the session has been written.                                   *)
C4_EndedFailureAlwaysSaved ==
  [][(Active /\ \E i \in 1..Len(inflight), body \in EndedBodies : SendThrow(i, body)) =>
       /\ Count(events', "error") = 0
       /\ CountAutoEnded(events') = 1 /\ Count(events', "chatEnded") = 1
       /\ ~isActive'
       /\ HasEntry(history', chatId)]_vars

(* C4 (amended): ... and a history entry of the session has been written    *)
(* whenever the session holds at least one message at that moment.          *)
C4_EndedFailureSavedIfNonEmpty ==
  [][(Active /\ \E i \in 1..Len(inflight), body \in EndedBodies : SendThrow(i, body)) =>
       /\ Count(events', "error") = 0
       /\ CountAutoEnded(events') = 1 /\ Count(events', "chatEnded") = 1
       /\ ~isActive'
       /\ (Len(messages) > 0 => HasEntry(history', chatId))
       /\ (Len(messages) = 0 => history' = history)]_vars

C4_Witness ==
  /\ last.send = "rejected"
  /\ CountAutoEnded(events) = 1
  /\ ~isActive /\ chatId # Null
  /\ Len(messages) > 0
  /\ HasEntry(history, chatId)

(* C5 (as stated): when a send fails because the conversation has ended,    *)
(* the presentation layer puts up no error notice for that send.            *)
C5_NoNoticeForEndedSend ==
  [][(\E i \in 1..Len(inflight), body \in EndedBodies : SendThrow(i, body)) =>
       uiErrors' = 0]_vars

(* a call of checkIfChatEnded is made in this step *)
PollCalled ==
  \/ ApiCheckIfChatEnded
  \/ ToggleClose
  \/ \E d \in pollTimers : PollTimerFire(d)

(* C6: a checkIfChatEnded called on an active session less than 2000 ms     *)
(* after createChat returns false without asking the gateway: the session   *)
(* stays active and no chatEnded is published, whatever the backend would   *)
(* have answered.                                                           *)
C6_GraceWindowSuppressesPoll ==
  [][(PollCalled /\ Active /\ createdAt # Null /\ now - createdAt < 2000) =>
       /\ last'.poll = "grace"
       /\ inflight' = inflight
       /\ isActive' /\ chatId' = chatId
       /\ Count(events', "chatEnded") = 0]_vars

C6_Witness == last.poll = "grace" /\ Active /\ now - createdAt < 2000

(* C7: when the backend answers 404 to the status request of a              *)
(* checkIfChatEnded running on an active session, the call does not fail:   *)
(* the session is saved to history if it has messages, isActive becomes     *)
(* false, exactly one chatEnded{autoEnded:true} is published and the call   *)
(* returns true.                                                            *)
C7_NotFoundEndsSession ==
  [][(Active /\ \E i \in 1..Len(inflight) : PollReturn(i, NotFound)) =>
       /\ last'.poll = "true"
       /\ ~isActive'
       /\ CountAutoEnded(events') = 1 /\ Count(events', "chatEnded") = 1
       /\ Count(events', "error") = 0
       /\ (Len(messages) > 0 => HasEntry(history', chatId))]_vars

C7_Witness ==
  /\ last.poll = "true"
  /\ ~isActive /\ chatId # Null
  /\ CountAutoEnded(events) = 1
  /\ Len(messages) > 0 /\ HasEntry(history, chatId)

(* C8: sendMessage called while the session is not active (no chat id, or   *)
(* isActive false) throws: no gateway request is made, no message is        *)
(* appended and no event is published.                                      *)
C8_SendNotActiveThrows ==
  [][(~(isActive /\ chatId # Null)
        /\ \E message \in ApiTexts, skipUserMessage \in BOOLEAN :
              ApiSendMessage(message, skipUserMessage)) =>
       /\ last'.send = "notactive"
       /\ inflight' = inflight
       /\ messages' = messages
       /\ events' = << >>]_vars

C8_Witness == last.send = "notactive" /\ ~isActive /\ chatId # Null

(* the list a send's answer appends to: the listener of chatEnded may have  *)
(* reset the store earlier in the same step                                 *)
Base == IF ListenerReset THEN << >> ELSE messages

ScenarioA ==
  [EmptyData EXCEPT !.isArray_messages = TRUE,
                    !.messages = << UserTurn("Hello"), AgentTurn("Hi there!") >>,
                    !.ended_at = "null"]

(* C10: a silent sendMessage on an active session records no user message   *)
(* and publishes no messageSent; its answer appends exactly one agent       *)
(* message holding the reply, and one messageReceived with that reply is    *)
(* published after the delay; on a fresh session messages is then exactly   *)
(* [agent reply].                                                           *)
C10_SilentSend ==
  [][/\ \A message \in ApiTexts :
          (Active /\ ApiSendMessage(message, TRUE)) =>
             messages' = messages /\ events' = << >>
     /\ \A i \in 1..Len(inflight), id \in ChatIds :
          (inflight[i].origin = "greeting" /\ CreateReturn(i, id)) =>
             messages' = << >> /\ Count(events', "messageSent") = 0
     /\ \A i \in 1..Len(inflight) :
          /\ (inflight[i].skipUserMessage /\ SendReturn(i, ScenarioA)) =>
                /\ messages' = Append(messages, Message("agent", "Hi there!"))
                /\ events' = << >>
          /\ (inflight[i].op = "send" /\ inflight[i].skipUserMessage /\ SendDelayDone(i)) =>
                /\ messages' = messages
                /\ events' = << Event("messageReceived", Null, Undef,
                                      inflight[i].botContent) >>]_vars

C10_Witness ==
  /\ Active
  /\ Len(messages) = 1
  /\ messages[1].role = "agent" /\ messages[1].content = "Hi there!"
  /\ events = << Event("messageReceived", Null, Undef, "Hi there!") >>

----------------------------------------------------------------------------
(* the chatEnded events of a step *)
EndedEvents(evs) == {k \in 1..Len(evs) : evs[k].name = "chatEnded"}

(* the gateway answers the endChat call i, made for the session that is     *)
(* still the active one                                                     *)
EndAnswered(i, ok) == Active /\ inflight[i].id = chatId /\ EndReturn(i, ok)

(* C11 (as stated): endChat on an active session whose gateway call         *)
(* succeeds leaves isActive false and publishes exactly one chatEnded       *)
(* event whose payload carries autoEnded: false.                            *)
C11_EndPublishesAutoEndedFalse ==
  [][\A i \in 1..Len(inflight) :
       EndAnswered(i, TRUE) =>
         /\ ~isActive'
         /\ Cardinality(EndedEvents(events')) = 1
         /\ \A k \in EndedEvents(events') : events'[k].autoEnded = "false"]_vars

(* C11 (amended): ... publishes exactly one chatEnded event, whose payload  *)
(* is the chat id alone: it has no autoEnded field (so it is never          *)
(* autoEnded: true), and no error event is published.                       *)
C11_EndPublishesChatIdOnly ==
  [][\A i \in 1..Len(inflight) :
       EndAnswered(i, TRUE) =>
         /\ ~isActive'
         /\ Cardinality(EndedEvents(events')) = 1
         /\ \A k \in EndedEvents(events') :
               events'[k].autoEnded = Undef /\ events'[k].chatId = chatId
         /\ Count(events', "error") = 0
         /\ last'.endc = "resolved"]_vars

C11_Witness ==
  /\ last.endc = "resolved"
  /\ ~isActive
  /\ Cardinality(EndedEvents(events)) = 1
  /\ \A k \in EndedEvents(events) : events[k].autoEnded = Undef /\ events[k].chatId # Null

(* the session as the store holds it *)
SessionView == << chatId, messages, isActive, variables, createdAt >>

(* C12 (as stated): endChat called while the session is not active fails    *)
(* loudly: the call rejects with a not-active error instead of returning    *)
(* without an effect.                                                       *)
C12_EndNotActiveThrows ==
  [][(~Active /\ ApiEndChat) => last'.endc = "rejected"]_vars

(* C13: when the gateway call of endChat fails, one error event is          *)
(* published and the call rejects; chatId, isActive, messages, variables    *)
(* (and createdAt, and the history) are as before and no chatEnded event    *)
(* is published.                                                            *)
C13_EndFailureLeavesSession ==
  [][\A i \in 1..Len(inflight) :
       EndReturn(i, FALSE) =>
         /\ last'.endc = "rejected"
         /\ Count(events', "error") = 1
         /\ Count(events', "chatEnded") = 0
         /\ SessionView' = SessionView
         /\ history' = history]_vars

C13_Witness ==
  /\ last.endc = "rejected"
  /\ Active /\ Len(messages) > 0
  /\ Count(events, "error") = 1

(* C14: when the gateway call of createChat fails, one error event is       *)
(* published and the call rejects; chatId, isActive, messages, variables    *)
(* and createdAt are as before the call's answer and no chatCreated event   *)
(* is published.                                                            *)
C14_CreateFailureLeavesSession ==
  [][\A i \in 1..Len(inflight) :
       CreateThrow(i) =>
         /\ last'.create = "rejected"
         /\ Count(events', "error") = 1
         /\ Count(events', "chatCreated") = 0
         /\ SessionView' = SessionView
         /\ history' = history]_vars

C14_Witness ==
  /\ last.create = "rejected"
  /\ Active /\ Len(messages) > 0
  /\ Count(events, "error") = 1

(* a createChat call is started in this step *)
CreateStarted ==
  /\ Len(inflight') = Len(inflight) + 1
  /\ LastOf(inflight').op = "create"

(* C15 (as stated): after the reset of 'Start New Conversation' or of the   *)
(* closed-widget cleanup has raised shouldResetChat, the next createChat    *)
(* call, whichever user action starts it, passes resetChat = true to the    *)
(* gateway.                                                                 *)
C15_NextCreateForcesReset ==
  [][(caller = "ui" /\ (resetPending \/ StartNewConversation) /\ CreateStarted) =>
       LastOf(inflight').resetChat]_vars

(* what saveChat stores of a message *)
Stored(msgs) ==
  [k \in 1..Len(msgs) |->
     [role |-> msgs[k].role, content |-> msgs[k].content, timestamp |-> msgs[k].timestamp]]

(* the history h holds the session (id, msgs, vs); a session without an id  *)
(* is held under a local id                                                 *)
Saved(h, id, msgs, vs) ==
  \E k \in 1..Len(h) :
     /\ h[k].id = IF id # Null THEN id ELSE LocalBase + now
     /\ h[k].messages = Stored(msgs)
     /\ h[k].variables = vs

(* C16 (as stated): on every transition of the session to ended or reset    *)
(* (the end detected in the answer or the failure of sendMessage, or in     *)
(* checkIfChatEnded, an endChat that succeeds, and reset) where messages is *)
(* not empty at that moment, the session (id, messages, variables) is in    *)
(* the history afterwards.                                                  *)
C16_EveryEndSaves ==
  [][(Len(messages) > 0 /\
        \/ \E i \in 1..Len(inflight) :
             \/ \E data \in SendResponses : isChatEnded(data) /\ SendReturn(i, data)
             \/ \E body \in EndedBodies : SendThrow(i, body)
             \/ PollReturn(i, NotFound)
             \/ EndReturn(i, TRUE)
        \/ ApiReset
        \/ StartNewConversation)
      => Saved(history', chatId, messages, variables)]_vars

(* the answer of /api/get-chat when the status request fails *)
ServerError == [code |-> 500, body |-> EmptyData]

(* C17: a failure of the status request of checkIfChatEnded is swallowed:   *)
(* the call returns false (it only logs the error), publishes neither an    *)
(* error nor a chatEnded event, and the session stays active with its       *)
(* messages and variables as they were.                                     *)
C17_PollFailureSwallowed ==
  [][\A i \in 1..Len(inflight) :
       (Active /\ PollReturn(i, ServerError)) =>
         /\ last'.poll = "false"
         /\ events' = << >>
         /\ SessionView' = SessionView
         /\ isActive' /\ chatId' # Null
         /\ history' = history]_vars

C17_Witness ==
  /\ last.poll = "false" /\ last.logged = "error"
  /\ Active /\ Len(messages) > 0
  /\ events = << >>

(* C18 (as stated): every transport error and every not-active error that   *)
(* makes createChat, sendMessage or endChat reject is also announced by an  *)
(* error event (a failure carrying the end-of-session text is not one of    *)
(* them: it is announced as chatEnded).                                     *)
C18_RejectionsAnnounced ==
  [][/\ \A i \in 1..Len(inflight) :
          ( \/ CreateThrow(i)
            \/ EndReturn(i, FALSE)
            \/ \E body \in SendErrorBodies :
                  ~isChatEndedText(sendMessageError(body)) /\ SendThrow(i, body) )
          => Count(events', "error") >= 1
     /\ last'.send = "notactive" => Count(events', "error") >= 1]_vars

(* C19 (as stated): after any sequence of saveChat calls the list getAll    *)
(* returns holds at most 50 entries: the 51st distinct session drops the    *)
(* oldest entry, keeping exactly 50.                                        *)
C19_HistoryCapped == Len(getAll(history)) <= 50

(* the positions of the entries of h with this id *)
EntriesOf(h, id) == {k \in 1..Len(h) : h[k].id = id}

(* the entry saveChat builds *)
EntryIs(e, id, msgs) ==
  /\ e.id = id
  /\ e.timestamp = now
  /\ e.messages = Stored(msgs)
  /\ e.variables = HistoryVariables

(* C20 (as stated): after saveChat(id, messages, variables) the history     *)
(* holds exactly one entry with that id (the entry it had replaced, a new   *)
(* one appended otherwise) and every entry with another id is as before.    *)
C20_SaveUpserts ==
  [][\A id \in ChatIds \cup {Null}, msgs \in HistoryMessages :
       HistorySaveChat(id, msgs) =>
         /\ Cardinality(EntriesOf(history', id)) = 1
         /\ \A k \in 1..Len(history) : history[k].id # id => history'[k] = history[k]]_vars

(* C20 (amended): saveChat with a message list that is not empty and an id  *)
(* that is not null leaves exactly one entry with that id, holding the      *)
(* messages given: the entry of that id replaced where it stood, a new      *)
(* entry appended otherwise, every other entry as before.  With an empty    *)
(* message list the history is as before; with a null id a new entry is     *)
(* appended under a local id made of the time of the call.                  *)
C20_SaveUpsertsNonEmpty ==
  [][\A id \in ChatIds \cup {Null}, msgs \in HistoryMessages :
       HistorySaveChat(id, msgs) =>
         IF Len(msgs) = 0 THEN history' = history /\ storage' = storage
         ELSE IF id = Null
         THEN /\ Len(history') = Len(history) + 1
              /\ SubSeq(history', 1, Len(history)) = history
              /\ EntryIs(LastOf(history'), LocalBase + now, msgs)
         ELSE /\ Cardinality(EntriesOf(history', id)) = 1
              /\ \A k \in EntriesOf(history', id) : EntryIs(history'[k], id, msgs)
              /\ \A k \in 1..Len(history) : history[k].id # id => history'[k] = history[k]
              /\ IF EntriesOf(history, id) # {}
                 THEN Len(history') = Len(history) /\ EntriesOf(history', id) = EntriesOf(history, id)
                 ELSE Len(history') = Len(history) + 1 /\ LastOf(history').id = id]_vars

(* the first of two entries was saved again later, where it stood *)
C20_Witness ==
  /\ caller = "history"
  /\ Len(history) = 2
  /\ history[1].id = 1 /\ history[2].id = 2
  /\ history[1].timestamp > history[2].timestamp
  /\ Len(history[1].messages) = 2

(* C21 (as stated): for every id and message list, saveChat(id, msgs, vars) *)
(* followed by getById(id) returns an entry whose messages equal msgs       *)
(* element by element (role, content, timestamp), in the same order.        *)
C21_SaveThenGet ==
  [][\A id \in ChatIds \cup {Null}, msgs \in HistoryMessages :
       HistorySaveChat(id, msgs) =>
         /\ getById(history', id).found
         /\ getById(history', id).chat[1].messages = Stored(msgs)]_vars

(* C21 (amended): for every id that is not null and every message list that *)
(* is not empty, saveChat followed by getById(id) returns an entry whose    *)
(* messages equal msgs element by element, in the same order.  With an      *)
(* empty list getById(id) returns what it returned before the call; with a  *)
(* null id getById(null) returns null.                                      *)
C21_SaveThenGetNonEmpty ==
  [][\A id \in ChatIds \cup {Null}, msgs \in HistoryMessages :
       HistorySaveChat(id, msgs) =>
         /\ (id # Null /\ Len(msgs) > 0) =>
               /\ getById(history', id).found
               /\ getById(history', id).chat[1].id = id
               /\ getById(history', id).chat[1].messages = Stored(msgs)
         /\ Len(msgs) = 0 => getById(history', id) = getById(history, id)
         /\ id = Null => ~getById(history', id).found]_vars

(* the entry of the session saved second is found under its id, with the    *)
(* two messages it was saved with                                           *)
C21_Witness ==
  /\ caller = "history"
  /\ Len(history) = 2 /\ history[2].id = 2
  /\ Len(history[1].messages) = 1
  /\ getById(history, 2).found
  /\ Len(getById(history, 2).chat[1].messages) = 2
  /\ getById(history, 2).chat[1].messages[1].role = "agent"

(* C22 (as stated): after any sequence of saveChat (also of an id that is   *)
(* already there), deleteChat and clearAll, getAll returns the entries      *)
(* newest first: their timestamps never increase along the list.            *)
C22_NewestFirst ==
  \A k \in 1..(Len(getAll(history)) - 1) :
     getAll(history)[k].timestamp >= getAll(history)[k + 1].timestamp

----------------------------------------------------------------------------
(* EventBus (src/public/src/utils/EventBus.js), on its own                 *)
(*                                                                         *)
(* A handler is [cb, w]: cb names what the callback does, w is 0 for a     *)
(* callback a client subscribed itself and k for the k-th wrapper that     *)
(* once made.  A Set is its list of entries in insertion order, where a    *)
(* deleted entry leaves a hole, so that a forEach that is under way skips  *)
(* it and still visits what is added behind it.  The Sets live in b.sets;  *)
(* b.map is EventBus.listeners, from an event to its Set (0 = no key).     *)

MaxBusCalls == 4   \* calls of the bus by its clients in one behaviour
MaxWrappers == 2   \* calls of once in one behaviour

EventOrder == << "chatEnded", "error" >>
EventNames == { EventOrder[i] : i \in 1..Len(EventOrder) }

(* what the callbacks of the clients do when they are invoked *)
Callbacks == {"returns", "throws", "unsubscribes", "clears", "republishes"}

Deleted == [cb |-> "deleted", w |-> 0]
Subscriber(cb) == [cb |-> cb, w |-> 0]

Set_entries(s) == SelectSeq(s, LAMBDA h : h # Deleted)
Set_has(s, h) == \E i \in 1..Len(s) : s[i] = h
Set_add(s, h) == IF Set_has(s, h) THEN s ELSE Append(s, h)
Set_delete(s, h) == [i \in 1..Len(s) |-> IF s[i] = h THEN Deleted ELSE s[i]]
Set_size(s) == Len(Set_entries(s))

(* the bus as a call finds it *)
Bus ==
  [sets |-> << listeners[EventOrder[1]], listeners[EventOrder[2]] >>,
   map |-> [e \in EventNames |->
             IF listeners[e] = << >> THEN 0
             ELSE CHOOSE i \in 1..Len(EventOrder) : EventOrder[i] = e],
   calls |-> << >>,
   removed |-> {},
   threw |-> FALSE,
   logged |-> 0,
   wrappers |-> wrappers]

EventBus_on(b, event, callback) ==
  LET b1 == IF b.map[event] = 0
            THEN [b EXCEPT !.sets = Append(@, << >>), !.map[event] = Len(b.sets) + 1]
            ELSE b
  IN [b1 EXCEPT !.sets[b1.map[event]] = Set_add(@, callback)]

EventBus_off(b, event, callback) ==
  IF b.map[event] = 0 THEN b
  ELSE LET b1 == [b EXCEPT !.sets[b.map[event]] = Set_delete(@, callback)]
       IN IF Set_size(b1.sets[b.map[event]]) = 0
          THEN [b1 EXCEPT !.map[event] = 0]
          ELSE b1

EventBus_clear(b, event) ==
  IF event # "undefined"
  THEN [b EXCEPT !.map[event] = 0]
  ELSE [b EXCEPT !.map = [e \in EventNames |-> 0]]

(* the handlers the bus holds for the event at this moment *)
Registered(b, event) ==
  IF b.map[event] = 0 THEN << >> ELSE Set_entries(b.sets[b.map[event]])

RangeOf(s) == { s[i] : i \in 1..Len(s) }

RECURSIVE EventBus_emit(_, _, _)

(* callback(data): the callbacks of the clients; the result is the bus     *)
(* afterwards and whether the callback threw                               *)
callback(b, cb, event, depth) ==
  CASE cb = "returns" -> [b |-> b, threw |-> FALSE]
    [] cb = "throws" -> [b |-> b, threw |-> TRUE]
    [] cb = "unsubscribes" ->
         [b |-> [EventBus_off(b, event, Subscriber("returns"))
                   EXCEPT !.removed = @ \cup {Subscriber("returns")}],
          threw |-> FALSE]
    [] cb = "clears" ->
         [b |-> [EventBus_clear(b, event)
                   EXCEPT !.removed = @ \cup RangeOf(Registered(b, event))],
          threw |-> FALSE]
    [] cb = "republishes" ->
         IF depth = 0
         THEN LET b1 == EventBus_emit(b, event, depth + 1)
              IN [b |-> [b1 EXCEPT !.threw = FALSE], threw |-> b1.threw]
         ELSE [b |-> b, threw |-> FALSE]

(* the wrapper of once: this.off(event, wrapper); callback(data) *)
wrapper(b, h, event, depth) ==
  LET b1 == [EventBus_off(b, event, h) EXCEPT !.removed = @ \cup {h}]
  IN callback([b1 EXCEPT !.wrappers[h.w].count = @ + 1], h.cb, event, depth)

invoke(b, h, event, depth) ==
  LET b1 == [b EXCEPT !.calls = Append(@, [h |-> h, depth |-> depth])]
  IN IF h.w > 0 THEN wrapper(b1, h, event, depth) ELSE callback(b1, h.cb, event, depth)

(* variant: no try around the callback *)
tryCallback_rethrows(b, h, event, depth) ==
  LET r == invoke(b, h, event, depth)
  IN [r.b EXCEPT !.threw = r.threw]

(* try { callback(data) } catch (error) { console.error(...) } *)
tryCallback(b, h, event, depth) ==
  LET r == invoke(b, h, event, depth)
  IN IF r.threw THEN [r.b EXCEPT !.logged = @ + 1] ELSE r.b

(* eventListeners.forEach(...) from entry i on; an exception that leaves   *)
(* the function passed to forEach ends the iteration                       *)
RECURSIVE forEach(_, _, _, _, _)
forEach(b, set, i, event, depth) ==
  IF b.threw \/ i > Len(b.sets[set]) THEN b
  ELSE IF b.sets[set][i] = Deleted THEN forEach(b, set, i + 1, event, depth)
  ELSE forEach(tryCallback(b, b.sets[set][i], event, depth), set, i + 1, event, depth)

EventBus_emit(b, event, depth) ==
  IF b.map[event] = 0 THEN b ELSE forEach(b, b.map[event], 1, event, depth)

(* once(event, callback): a new wrapper each time *)
EventBus_once(b, event, cb) ==
  LET b1 == [b EXCEPT !.wrappers = Append(b.wrappers, [event |-> event, cb |-> cb,
                                                       count |-> 0, published |-> FALSE])]
  IN EventBus_on(b1, event, [cb |-> cb, w |-> Len(b1.wrappers)])

(* a publish by a client begins: the wrappers registered for the event     *)
(* are noted as having seen a publish                                      *)
RECURSIVE Published(_, _, _)
Published(ws, registered, k) ==
  IF k > Len(ws) THEN ws
  ELSE Published(IF Set_has(registered, [cb |-> ws[k].cb, w |-> k])
                 THEN [ws EXCEPT ![k].published = TRUE]
                 ELSE ws,
                 registered, k + 1)

Publishing(b, event) ==
  [b EXCEPT !.wrappers = Published(b.wrappers, Registered(b, event), 1)]

SetBus(b, op, event) ==
  /\ listeners' = [e \in EventNames |-> Registered(b, e)]
  /\ busLog' = [op |-> op, event |-> event, calls |-> b.calls, removed |-> b.removed,
                threw |-> b.threw, logged |-> b.logged]
  /\ wrappers' = b.wrappers

BusSpecInit ==
  /\ chatId = Null
  /\ messages = << >>
  /\ isActive = FALSE
  /\ variables = << >>
  /\ createdAt = Null
  /\ shouldResetChat = FALSE
  /\ history = << >>
  /\ storage = << >>
  /\ events = << >>
  /\ now = 1
  /\ uiChatEnded = FALSE
  /\ isProcessing = FALSE
  /\ uiErrors = 0
  /\ caller = "bus"
  /\ isChatWidgetOpen = FALSE
  /\ inflight = << >>
  /\ pollTimers = {}
  /\ greetTimers = {}
  /\ last = NoLast
  /\ resetPending = FALSE
  /\ ops = 0
  /\ BusInit
  /\ BackendInit
  /\ PureInit

(* everything but the bus is idle *)
BusOnly ==
  UNCHANGED << chatId, messages, isActive, variables, createdAt, shouldResetChat,
               history, storage, events, now, uiChatEnded, isProcessing, uiErrors,
               isChatWidgetOpen, inflight, pollTimers, greetTimers, last,
               resetPending, caller, arg, ret,
               currentChatId, vendorChats, requests, responses >>

BusStarted == caller = "bus" /\ ops < MaxBusCalls /\ ops' = ops + 1

BusOn(event, cb) ==
  /\ BusStarted
  /\ SetBus(EventBus_on(Bus, event, Subscriber(cb)), "on", event)
  /\ BusOnly

BusOff(event, cb) ==
  /\ BusStarted
  /\ SetBus(EventBus_off(Bus, event, Subscriber(cb)), "off", event)
  /\ BusOnly

BusOnce(event, cb) ==
  /\ BusStarted
  /\ Len(wrappers) < MaxWrappers
  /\ SetBus(EventBus_once(Bus, event, cb), "once", event)
  /\ BusOnly

BusEmit(event) ==
  /\ BusStarted
  /\ SetBus(EventBus_emit(Publishing(Bus, event), event, 0), "emit", event)
  /\ BusOnly

BusClear(event) ==
  /\ BusStarted
  /\ SetBus(EventBus_clear(Bus, event), "clear", event)
  /\ BusOnly

BusNext ==
  \/ \E event \in EventNames, cb \in Callbacks : BusOn(event, cb)
  \/ \E event \in EventNames, cb \in Callbacks : BusOff(event, cb)
  \/ \E event \in EventNames, cb \in Callbacks : BusOnce(event, cb)
  \/ \E event \in EventNames : BusEmit(event)
  \/ \E event \in EventNames \cup {"undefined"} : BusClear(event)

BusSpec == BusSpecInit /\ [][BusNext]_vars

----------------------------------------------------------------------------
(* Properties of the EventBus *)

(* a client's call of emit for the event ends in this step *)
EmitCalled(event) == BusStarted /\ busLog'.op = "emit" /\ busLog'.event = event

(* the entries of s that are in the set hs, in their order *)
Among(s, hs) == SelectSeq(s, LAMBDA h : h \in hs)

(* the handlers the publish itself invoked (not a publish inside it), in order *)
InvokedBy(calls) ==
  LET top == SelectSeq(calls, LAMBDA c : c.depth = 0)
  IN [i \in 1..Len(top) |-> top[i].h]

(* the handlers subscribed when the publish began that nothing unsubscribed *)
(* while it ran                                                            *)
StayedSubscribed(registered, removed) == RangeOf(registered) \ removed

(* C23: a publish invokes every handler that is registered for the event,  *)
(* each once and in the order of subscription, before it returns; a        *)
(* handler that throws does not keep the later ones from running, and the  *)
(* publisher does not see its exception.                                   *)
C23_EmitInvokesAll ==
  [][\A event \in EventNames :
       EmitCalled(event) =>
         /\ ~busLog'.threw
         /\ Among(InvokedBy(busLog'.calls),
                  StayedSubscribed(listeners[event], busLog'.removed))
            = Among(listeners[event],
                    StayedSubscribed(listeners[event], busLog'.removed))]_vars

(* a publish went through a handler that threw and on to a later handler *)
C23_Witness ==
  /\ busLog.op = "emit"
  /\ busLog.logged > 0
  /\ ~busLog.threw
  /\ \E i, j \in 1..Len(busLog.calls) :
       /\ i < j
       /\ busLog.calls[i] = [h |-> Subscriber("throws"), depth |-> 0]
       /\ busLog.calls[j] = [h |-> Subscriber("returns"), depth |-> 0]
       /\ Subscriber("returns") \notin busLog.removed

(* C24: the callback of a subscribe-once registration runs on the first    *)
(* publish of its event after the registration and on no other publish:    *)
(* it has run once if a publish found it registered, and not at all        *)
(* before that.                                                            *)
C24_OnceRunsOnce ==
  \A k \in 1..Len(wrappers) :
    wrappers[k].count = IF wrappers[k].published THEN 1 ELSE 0

----------------------------------------------------------------------------
(* VariableExtractor on its own: a client calls it with a response it got  *)

ChatStatusValues == {Undef, "ended", "ongoing"}
StatusValues == {Undef, "ended", "finished", "completed", "error", "ongoing"}
FlagValues == {Undef, "true", "false"}
TimestampValues == {Undef, "null", "169999"}

(* the responses that differ in the fields isChatEnded reads *)
IndicatorResponses ==
  { [EmptyData EXCEPT !.chat_status = cs, !.status = st, !.ended = e, !.is_ended = ie,
                      !.finished = f, !.ended_at = ea, !.finished_at = fa,
                      !.end_time = et] :
      cs \in ChatStatusValues, st \in StatusValues,
      e \in FlagValues, ie \in FlagValues, f \in FlagValues,
      ea \in TimestampValues, fa \in TimestampValues, et \in TimestampValues }

Obj(o) == [present |-> TRUE, obj |-> o]

(* what may sit in a place for variables: nothing, {}, an object whose     *)
(* values are all dropped, and two objects with a value that is kept       *)
VariablesValues ==
  { NoObj,
    Obj([k \in {} |-> ""]),
    Obj([k \in {"first_name"} |-> ""]),
    Obj([k \in {"first_name"} |-> "Ann"]),
    Obj([k \in {"first_name", "email"} |-> IF k = "first_name" THEN "Bob" ELSE "null"]) }

(* the responses that differ in the fields findVariables reads *)
VariablesResponses ==
  { [EmptyData EXCEPT !.variables = v, !.metadata_variables = mv,
                      !.extracted_variables = ev, !.state_variables = sv] :
      v \in VariablesValues, mv \in VariablesValues,
      ev \in VariablesValues, sv \in VariablesValues }

ExtractorInit ==
  /\ chatId = Null
  /\ messages = << >>
  /\ isActive = FALSE
  /\ variables = << >>
  /\ createdAt = Null
  /\ shouldResetChat = FALSE
  /\ history = << >>
  /\ storage = << >>
  /\ events = << >>
  /\ now = 1
  /\ uiChatEnded = FALSE
  /\ isProcessing = FALSE
  /\ uiErrors = 0
  /\ caller = "extractor"
  /\ isChatWidgetOpen = FALSE
  /\ inflight = << >>
  /\ pollTimers = {}
  /\ greetTimers = {}
  /\ last = NoLast
  /\ resetPending = FALSE
  /\ ops = 0
  /\ BusInit
  /\ BackendInit
  /\ arg \in IndicatorResponses \cup VariablesResponses
  /\ ret = NoCall

(* everything but the function that is called is idle *)
PureOnly ==
  UNCHANGED << chatId, messages, isActive, variables, createdAt, shouldResetChat,
               history, storage, events, now, uiChatEnded, isProcessing, uiErrors,
               isChatWidgetOpen, inflight, pollTimers, greetTimers, last, ops,
               resetPending, caller, listeners, busLog, wrappers, arg,
               currentChatId, vendorChats, requests, responses >>

ExtractorIsChatEnded ==
  /\ caller = "extractor"
  /\ ret' = [op |-> "isChatEnded", value |-> isChatEnded(arg)]
  /\ PureOnly

ExtractorExtract ==
  /\ caller = "extractor"
  /\ ret' = [op |-> "extract", value |-> extract(arg)]
  /\ PureOnly

ExtractorFindVariables ==
  /\ caller = "extractor"
  /\ ret' = [op |-> "findVariables", value |-> findVariables(arg)]
  /\ PureOnly

ExtractorNext ==
  \/ ExtractorIsChatEnded
  \/ ExtractorExtract
  \/ ExtractorFindVariables

ExtractorSpec == ExtractorInit /\ [][ExtractorNext]_vars

(* the end indicators the specification lists *)
Populated(v) == v # Undef /\ v # "null"

ListedIndicator(data) ==
  \/ data.status \in {"ended", "finished", "completed", "error"}
  \/ data.ended = "true"
  \/ data.is_ended = "true"
  \/ data.finished = "true"
  \/ Populated(data.ended_at)
  \/ Populated(data.finished_at)
  \/ Populated(data.end_time)

(* C25 as stated: isChatEnded of an object is true when one of the listed  *)
(* indicators is populated and false when none is.                         *)
C25_EndedIffListedIndicator ==
  ret.op = "isChatEnded" => (ret.value <=> ListedIndicator(arg))

(* C25: isChatEnded of an object is true when one of the listed indicators *)
(* is populated or chat_status is 'ended', and false otherwise; {} and     *)
(* {ended_at: null} give false.                                            *)
C25_EndedIffIndicator ==
  ret.op = "isChatEnded" =>
    /\ ret.value <=> (ListedIndicator(arg) \/ arg.chat_status = "ended")
    /\ arg = EmptyData => ~ret.value
    /\ arg = [EmptyData EXCEPT !.ended_at = "null"] => ~ret.value

(* isChatEnded answered true for an object whose only indicator is chat_status *)
C25_Witness ==
  /\ ret.op = "isChatEnded"
  /\ ret.value
  /\ arg.chat_status = "ended"
  /\ ~ListedIndicator(arg)

(* the first of the four places, in search order, that holds an object     *)
(* with at least one key                                                   *)
NonEmpty(o) == o.present /\ DOMAIN o.obj # {}

FirstNonEmpty(data) ==
  IF NonEmpty(data.variables) THEN data.variables
  ELSE IF NonEmpty(data.metadata_variables) THEN data.metadata_variables
  ELSE IF NonEmpty(data.extracted_variables) THEN data.extracted_variables
  ELSE IF NonEmpty(data.state_variables) THEN data.state_variables
  ELSE NoObj

(* C26: extract returns the first non-empty variables object in the order  *)
(* variables, metadata.variables, extracted_variables, state.variables,    *)
(* without its null, undefined and empty-string values (null if none is    *)
(* left), and null when all four places are absent or empty.               *)
C26_ExtractFirstNonEmpty ==
  ret.op = "extract" =>
    ret.value = IF NonEmpty(FirstNonEmpty(arg))
                   /\ DOMAIN filtered(FirstNonEmpty(arg).obj) # {}
                THEN Obj(filtered(FirstNonEmpty(arg).obj))
                ELSE NoObj

----------------------------------------------------------------------------
(* MessageFormatter (src/unnamed/part_008), on its own                     *)
(*                                                                         *)
(* A string is a sequence of pieces [c, src].  c is a character or a run   *)
(* of characters that the patterns of the formatters cannot split: a word  *)
(* without a space, '<' or '>', the scheme "http://" (for https:// too),   *)
(* "www.", or the host and path "outlook.office.com/bookwithme".  src      *)
(* tells where the piece comes from and plays no part in the formatting:   *)
(* "text" is input in text position, "attr" is input inside an attribute   *)
(* value the formatter wrote, "markup" is written by the formatter.        *)

MaxTextLen == 4   \* pieces of a message text

SCHEME == "http://"
WWW == "www."
OUTLOOK == "outlook.office.com/bookwithme"

Pieces == {"x", " ", "<", ">", "&", "\"", "/", SCHEME, WWW, OUTLOOK}

RECURSIVE TextsUpTo(_)
TextsUpTo(n) ==
  IF n = 0 THEN { << >> }
  ELSE TextsUpTo(n - 1) \cup
       { Append(t, p) : t \in { u \in TextsUpTo(n - 1) : Len(u) = n - 1 }, p \in Pieces }

(* the text of end-to-end scenario C: Visit http://x.com/<script> *)
ScenarioC == << "Visit", " ", SCHEME, "x.com/", "<", "script", ">" >>

Raw(text) == [i \in 1..Len(text) |-> [c |-> text[i], src |-> "text"]]
M(c) == [c |-> c, src |-> "markup"]

(* div.textContent = text; return div.innerHTML *)
escapeChar(c) ==
  CASE c = "<" -> "&lt;"
    [] c = ">" -> "&gt;"
    [] c = "&" -> "&amp;"
    [] OTHER -> c

escapeHtml(s) == [i \in 1..Len(s) |-> [c |-> escapeChar(s[i].c), src |-> s[i].src]]

PlainTextFormatter_format(s) == escapeHtml(s)

(* [^\s<] *)
UrlChar(p) == p.c # " " /\ p.c # "<"

(* the last piece of the longest run of [^\s<] that begins at i (i - 1 if none) *)
RECURSIVE runEnd(_, _)
runEnd(s, i) == IF i > Len(s) \/ ~UrlChar(s[i]) THEN i - 1 ELSE runEnd(s, i + 1)

hasPiece(s, c) == \E i \in 1..Len(s) : s[i].c = c

(* the pieces of input put between the quotes of an attribute *)
InAttribute(url) ==
  [i \in 1..Len(url) |->
     [c |-> url[i].c, src |-> IF url[i].src = "markup" THEN "markup" ELSE "attr"]]

OutlookFormatter_canHandle(s) == hasPiece(s, OUTLOOK)

(* /(https?:\/\/outlook\.office\.com\/bookwithme\/[^\s<]+)/gi matches at i *)
outlookPatternAt(s, i) ==
  /\ i + 3 <= Len(s)
  /\ s[i].c = SCHEME
  /\ s[i + 1].c = OUTLOOK
  /\ s[i + 2].c = "/"
  /\ UrlChar(s[i + 3])

calendarButton(url) ==
  << M("<"), M("div"), M(" "), M("class=\"outlook-calendar-button-wrapper\""), M(" "),
     M("id=\"outlook-embed-1-abc\""), M(">"),
     M("<"), M("a"), M(" "), M("href="), M("\"") >>
  \o InAttribute(url)
  \o << M("\""), M(" "), M("target=\"_blank\""), M(" "), M("rel=\"noopener"), M(" "),
        M("noreferrer\""), M(" "), M("class=\"outlook-calendar-button\""), M(">"),
        M("U+1F4C5"), M(" "), M("Open"), M(" "), M("Calendar"),
        M("<"), M("/a"), M(">"), M("<"), M("/div"), M(">"), M("<"), M("br"), M(">") >>

(* the while loop: the pattern is tried from i on, lastIndex is the first  *)
(* piece not yet put out                                                   *)
RECURSIVE outlookParts(_, _, _)
outlookParts(s, i, lastIndex) ==
  IF i > Len(s)
  THEN IF lastIndex <= Len(s) THEN escapeHtml(SubSeq(s, lastIndex, Len(s))) ELSE << >>
  ELSE IF outlookPatternAt(s, i)
  THEN (IF i > lastIndex THEN escapeHtml(SubSeq(s, lastIndex, i - 1)) ELSE << >>)
       \o calendarButton(SubSeq(s, i, runEnd(s, i + 3)))
       \o outlookParts(s, runEnd(s, i + 3) + 1, runEnd(s, i + 3) + 1)
  ELSE outlookParts(s, i + 1, lastIndex)

OutlookFormatter_format(s) == outlookParts(s, 1, 1)

LinkFormatter_canHandle(s) == hasPiece(s, SCHEME) \/ hasPiece(s, WWW)

(* /(https?:\/\/[^\s<]+|www\.[^\s<]+)/gi matches at i *)
urlPatternAt(s, i) ==
  /\ i + 1 <= Len(s)
  /\ s[i].c \in {SCHEME, WWW}
  /\ UrlChar(s[i + 1])

messageLink(url) ==
  IF hasPiece(url, OUTLOOK) THEN url
  ELSE << M("<"), M("a"), M(" "), M("href="), M("\"") >>
       \o (IF url[1].c = WWW THEN << M("https://") >> ELSE << >>)
       \o InAttribute(url)
       \o << M("\""), M(" "), M("target=\"_blank\""), M(" "), M("rel=\"noopener"), M(" "),
             M("noreferrer\""), M(" "), M("class=\"message-link\""), M(">") >>
       \o url
       \o << M("<"), M("/a"), M(">") >>

(* part.replace(urlPattern, ...) from piece i on *)
RECURSIVE replaceUrls(_, _)
replaceUrls(s, i) ==
  IF i > Len(s) THEN << >>
  ELSE IF urlPatternAt(s, i)
  THEN messageLink(SubSeq(s, i, runEnd(s, i + 1))) \o replaceUrls(s, runEnd(s, i + 1) + 1)
  ELSE << s[i] >> \o replaceUrls(s, i + 1)

(* the function given to parts.map *)
linkPart(part) ==
  IF Len(part) > 0 /\ part[1].c = "<" /\ part[Len(part)].c = ">" THEN part
  ELSE replaceUrls(part, 1)

(* the first '>' at or behind i, 0 if there is none *)
RECURSIVE firstGt(_, _)
firstGt(s, i) ==
  IF i > Len(s) THEN 0 ELSE IF s[i].c = ">" THEN i ELSE firstGt(s, i + 1)

(* /(<[^>]+>)/g matches at i *)
htmlTagPatternAt(s, i) == s[i].c = "<" /\ firstGt(s, i + 1) > i + 1

(* text.split(htmlTagPattern).map(...).join(''): the pattern is tried from *)
(* i on, the part that is not a tag begins at start                        *)
RECURSIVE linkParts(_, _, _)
linkParts(s, i, start) ==
  IF i > Len(s) THEN linkPart(SubSeq(s, start, Len(s)))
  ELSE IF htmlTagPatternAt(s, i)
  THEN linkPart(SubSeq(s, start, i - 1))
       \o linkPart(SubSeq(s, i, firstGt(s, i + 1)))
       \o linkParts(s, firstGt(s, i + 1) + 1, firstGt(s, i + 1) + 1)
  ELSE linkParts(s, i + 1, start)

LinkFormatter_format(s) == linkParts(s, 1, 1)

MessageFormatter_format(text) ==
  IF Len(text) = 0 THEN << >>
  ELSE LET result == IF OutlookFormatter_canHandle(Raw(text))
                     THEN OutlookFormatter_format(Raw(text))
                     ELSE PlainTextFormatter_format(Raw(text))
       IN IF LinkFormatter_canHandle(result) THEN LinkFormatter_format(result) ELSE result

FormatterInit ==
  /\ chatId = Null
  /\ messages = << >>
  /\ isActive = FALSE
  /\ variables = << >>
  /\ createdAt = Null
  /\ shouldResetChat = FALSE
  /\ history = << >>
  /\ storage = << >>
  /\ events = << >>
  /\ now = 1
  /\ uiChatEnded = FALSE
  /\ isProcessing = FALSE
  /\ uiErrors = 0
  /\ caller = "formatter"
  /\ isChatWidgetOpen = FALSE
  /\ inflight = << >>
  /\ pollTimers = {}
  /\ greetTimers = {}
  /\ last = NoLast
  /\ resetPending = FALSE
  /\ ops = 0
  /\ BusInit
  /\ BackendInit
  /\ arg \in TextsUpTo(MaxTextLen) \cup {ScenarioC}
  /\ ret = NoCall

FormatterFormat ==
  /\ caller = "formatter"
  /\ ret' = [op |-> "format", value |-> MessageFormatter_format(arg)]
  /\ PureOnly

FormatterEscapeHtml ==
  /\ caller = "formatter"
  /\ ret' = [op |-> "escapeHtml", value |-> PlainTextFormatter_format(Raw(arg))]
  /\ PureOnly

FormatterNext ==
  \/ FormatterFormat
  \/ FormatterEscapeHtml

FormatterSpec == FormatterInit /\ [][FormatterNext]_vars

(* a piece of input that is still markup where it stands: a character of   *)
(* markup in text position, or one of those or a quote inside the quotes   *)
(* of an attribute                                                         *)
Unescaped(p) ==
  \/ p.src = "text" /\ p.c \in {"<", ">", "&"}
  \/ p.src = "attr" /\ p.c \in {"<", ">", "&", "\""}

unescapeChar(c) ==
  CASE c = "&lt;" -> "<"
    [] c = "&gt;" -> ">"
    [] c = "&amp;" -> "&"
    [] OTHER -> c

(* what a reader sees of the pieces *)
Visible(s) == [i \in 1..Len(s) |-> unescapeChar(s[i].c)]

(* the output is one anchor, from piece i to the end, that shows the url *)
AnchorShows(out, i, url) ==
  /\ Len(out) = i + 17 + 2 * Len(url)
  /\ out[i] = M("<") /\ out[i + 1] = M("a")
  /\ out[i + 14 + Len(url)] = M(">")
  /\ Visible(SubSeq(out, i + 15 + Len(url), i + 14 + 2 * Len(url))) = url
  /\ SubSeq(out, i + 15 + 2 * Len(url), Len(out)) = << M("<"), M("/a"), M(">") >>

(* C27: what format returns holds no character of the input that is still  *)
(* markup: the input adds no tag and no attribute; and for the text        *)
(* Visit http://x.com/<script> the script tag is escaped and the url is an *)
(* anchor that shows the url as it was typed.                              *)
C27_FormatNeutralizes ==
  ret.op = "format" =>
    /\ \A i \in 1..Len(ret.value) : ~Unescaped(ret.value[i])
    /\ arg = ScenarioC =>
         /\ hasPiece(ret.value, "&lt;")
         /\ AnchorShows(ret.value, 3, SubSeq(ScenarioC, 3, 7))

----------------------------------------------------------------------------
(* Properties of the orchestrator: polls of an earlier session *)

(* C28: the answer to a status poll that was issued for session A, when    *)
(* the store holds a later session B by then, changes nothing: B is not    *)
(* marked ended, not saved to the history, and no chatEnded is published   *)
(* for it.                                                                 *)
C28_StalePollInert ==
  [][\A i \in 1..Len(inflight) : \A r \in StatusResponses :
       (PollReturn(i, r) /\ chatId # Null /\ inflight[i].id # chatId) =>
         /\ isActive' = isActive
         /\ history' = history
         /\ EndedEvents(events') = {}]_vars

(* C29: when the response of a send says that the session has ended, the   *)
(* ended-transition comes first (history save, session inactive,           *)
(* chatEnded with autoEnded true is the first event published) and the     *)
(* call goes on: the variables of the response are merged, the reply is    *)
(* appended as agent message, and messageReceived is published only in the *)
(* later step that ends the response delay.                                *)
C29_EndedThenReply ==
  [][\A i \in 1..Len(inflight) :
       /\ \A data \in SendResponses :
            (isChatEnded(data) /\ SendReturn(i, data)) =>
               /\ Len(events') >= 1
               /\ events'[1] = Event("chatEnded", chatId, "true", "")
               /\ ~isActive'
               /\ Len(messages) > 0 => Saved(history', chatId, messages, variables)
               /\ extract(data).present =>
                    \A k \in DOMAIN extract(data).obj :
                       k \in DOMAIN variables' /\ variables'[k] = extract(data).obj[k]
               /\ Len(messages') >= 1
               /\ LastOf(messages').role = "agent"
               /\ LastOf(messages').content = extractBotResponse(data)
               /\ Count(events', "messageReceived") = 0
               /\ inflight'[i].pc = "delay"
               /\ inflight'[i].botContent = extractBotResponse(data)
       /\ SendDelayDone(i) =>
            /\ Count(events', "chatEnded") = 0
            /\ Count(events', "messageReceived") = 1
            /\ LastOf(events').content = inflight[i].botContent]_vars

(* a response that ended the session has just been processed: chatEnded is *)
(* out, the session was saved, and the reply and the variables are in      *)
C29_Witness ==
  /\ Len(events) >= 1 /\ events[1].name = "chatEnded" /\ events[1].autoEnded = "true"
  /\ ~isActive
  /\ Len(history) > 0
  /\ Len(messages) >= 1 /\ LastOf(messages).content = "Goodbye"
  /\ "first_name" \in DOMAIN variables
  /\ \E i \in 1..Len(inflight) : inflight[i].pc = "delay" /\ inflight[i].botContent = "Goodbye"

----------------------------------------------------------------------------
(* The backend function api/create-chat (src/unnamed/part_000), on its own *)
(*                                                                         *)
(* One warm instance serves every client; currentChatId is a variable of   *)
(* the module and outlives a request.  The vendor numbers its chats 1, 2,  *)
(* ... in the order it creates them.                                       *)

MaxRequests == 3      \* requests the instance receives in one behaviour
MaxVendorChats == 2   \* chats the vendor creates in one behaviour

Clients == {"u1", "u2"}
Methods == {"POST", "OPTIONS", "GET"}

Request(client, pc, id) == [client |-> client, pc |-> pc, id |-> id]
Response(client, status, id) == [client |-> client, status |-> status, chat_id |-> id]

BackendSpecInit ==
  /\ chatId = Null
  /\ messages = << >>
  /\ isActive = FALSE
  /\ variables = << >>
  /\ createdAt = Null
  /\ shouldResetChat = FALSE
  /\ history = << >>
  /\ storage = << >>
  /\ events = << >>
  /\ now = 1
  /\ uiChatEnded = FALSE
  /\ isProcessing = FALSE
  /\ uiErrors = 0
  /\ caller = "backend"
  /\ isChatWidgetOpen = FALSE
  /\ inflight = << >>
  /\ pollTimers = {}
  /\ greetTimers = {}
  /\ last = NoLast
  /\ resetPending = FALSE
  /\ ops = 0
  /\ BusInit
  /\ PureInit
  /\ currentChatId = 0
  /\ vendorChats = << >>
  /\ requests = << >>
  /\ responses = << >>

(* everything but the backend function and the vendor is idle *)
BackendOnly ==
  UNCHANGED << chatId, messages, isActive, variables, createdAt, shouldResetChat,
               history, storage, events, now, uiChatEnded, isProcessing, uiErrors,
               isChatWidgetOpen, inflight, pollTimers, greetTimers, last,
               resetPending, caller, listeners, busLog, wrappers, arg, ret >>

(* handler(req, res) up to its first await, or to its answer *)
BackendRequest(client, method, reset_chat) ==
  /\ caller = "backend"
  /\ ops < MaxRequests
  /\ ops' = ops + 1
  /\ IF method = "OPTIONS"
     THEN /\ responses' = Append(responses, Response(client, 200, 0))
          /\ UNCHANGED << currentChatId, requests >>
     ELSE IF method # "POST"
     THEN /\ responses' = Append(responses, Response(client, 405, 0))
          /\ UNCHANGED << currentChatId, requests >>
     ELSE /\ currentChatId' = IF reset_chat THEN 0 ELSE currentChatId
          /\ requests' = Append(requests,
                                IF currentChatId' # 0 /\ ~reset_chat
                                THEN Request(client, "check", currentChatId')
                                ELSE Request(client, "create", 0))
          /\ UNCHANGED responses
  /\ UNCHANGED vendorChats
  /\ BackendOnly

(* the vendor answers get-chat: ok, with a status that is not 2xx, or not  *)
(* at all                                                                  *)
BackendCheckReturn(i, answer) ==
  /\ i \in 1..Len(requests)
  /\ requests[i].pc = "check"
  /\ IF answer = "ok" /\ vendorChats[requests[i].id] = "ongoing"
     THEN /\ responses' = Append(responses, Response(requests[i].client, 200, currentChatId))
          /\ requests' = Remove(requests, i)
          /\ UNCHANGED currentChatId
     ELSE /\ currentChatId' = 0
          /\ requests' = [requests EXCEPT ![i] = Request(requests[i].client, "create", 0)]
          /\ UNCHANGED responses
  /\ UNCHANGED << vendorChats, ops >>
  /\ BackendOnly

(* the vendor answers create-chat *)
BackendCreateReturn(i, ok) ==
  /\ i \in 1..Len(requests)
  /\ requests[i].pc = "create"
  /\ IF ok
     THEN /\ Len(vendorChats) < MaxVendorChats
          /\ vendorChats' = Append(vendorChats, "ongoing")
          /\ currentChatId' = Len(vendorChats')
          /\ responses' = Append(responses,
                                 Response(requests[i].client, 200, Len(vendorChats')))
     ELSE /\ responses' = Append(responses, Response(requests[i].client, 500, 0))
          /\ UNCHANGED << vendorChats, currentChatId >>
  /\ requests' = Remove(requests, i)
  /\ UNCHANGED ops
  /\ BackendOnly

(* a chat ends at the vendor *)
VendorChatEnds(id) ==
  /\ caller = "backend"
  /\ id \in 1..Len(vendorChats)
  /\ vendorChats[id] = "ongoing"
  /\ vendorChats' = [vendorChats EXCEPT ![id] = "ended"]
  /\ UNCHANGED << currentChatId, requests, responses, ops >>
  /\ BackendOnly

BackendNext ==
  \/ \E client \in Clients, method \in Methods, reset_chat \in BOOLEAN :
        BackendRequest(client, method, reset_chat)
  \/ \E i \in 1..Len(requests), answer \in {"ok", "notOk", "throws"} :
        BackendCheckReturn(i, answer)
  \/ \E i \in 1..Len(requests), ok \in BOOLEAN : BackendCreateReturn(i, ok)
  \/ \E id \in 1..MaxVendorChats : VendorChatEnds(id)

BackendSpec == BackendSpecInit /\ [][BackendNext]_vars

(* C30: no two answers of the create endpoint to different clients carry   *)
(* the same chat id.                                                       *)
C30_NoSharedChatId ==
  \A i, j \in 1..Len(responses) :
     (responses[i].status = 200 /\ responses[j].status = 200
        /\ responses[i].chat_id # 0
        /\ responses[i].client # responses[j].client)
     => responses[i].chat_id # responses[j].chat_id

----------------------------------------------------------------------------
(* C31: a click on "Start New Conversation" starts the automatic greeting:  *)
(* in every state in which the button can be clicked, the display delay of  *)
(* the reply that brought the end included, the click leaves the createChat *)
(* of sendInitialGreeting in flight, from which the new session and its     *)
(* 'Hello' follow                                                           *)
C31_RestartStartsGreeting ==
  [][StartNewConversation =>
       /\ Len(inflight') = Len(inflight) + 1
       /\ LastOf(inflight').op = "create"
       /\ LastOf(inflight').origin = "greeting"]_vars

----------------------------------------------------------------------------
(* Object.entries(vars).forEach(setVariable) seen as one assignment *)
Merged(old, new) ==
  [k \in DOMAIN old \cup DOMAIN new |-> IF k \in DOMAIN new THEN new[k] ELSE old[k]]

----------------------------------------------------------------------------
(* C33: a session without id holds no message                               *)
C33_NoIdNoMessages == chatId = Null => messages = << >>

----------------------------------------------------------------------------
(* the replies of the answers that carry the end signal; every answer of    *)
(* SendResponses has a reply text of its own                                *)
EndedReplies == { extractBotResponse(data) : data \in {d \in SendResponses : isChatEnded(d)} }

(* C34: when a send whose answer carried the end signal completes, the      *)
(* history holds an entry under that session's id, and the entry's messages *)
(* include the agent reply that came with the end signal                    *)
C34_EndedSendSavesReply ==
  [][\A i \in 1..Len(inflight) :
       (SendDelayDone(i) /\ inflight[i].botContent \in EndedReplies) =>
          \E k \in 1..Len(history') :
             /\ history'[k].id = inflight[i].id
             /\ \E m \in 1..Len(history'[k].messages) :
                  /\ history'[k].messages[m].role = "agent"
                  /\ history'[k].messages[m].content = inflight[i].botContent]_vars

----------------------------------------------------------------------------
(* C35: right after createChat has succeeded the session has no variables,  *)
(* whichever path created it                                                *)
C35_NewSessionNoVariables ==
  [][\A i \in 1..Len(inflight) : \A id \in ChatIds :
       CreateReturn(i, id) => variables' = << >>]_vars

----------------------------------------------------------------------------
(* C36: while the orchestrator's session is active the widget does not show *)
(* the conversation as ended                                                *)
C36_ActiveNotShownEnded == isActiveChat(World) => ~uiChatEnded

----------------------------------------------------------------------------
(* The widget on its own with a scheduler that is fair: every call of the   *)
(* gateway is answered or fails, and every timer that was set fires. The    *)
(* clock of the model stops when a Tick more would pass MaxNow; the timers  *)
(* that are due later than that still fire, in HorizonPasses, which lets    *)
(* their time come without moving the clock.                                *)

(* the page has been loaded for a while when the user first opens the widget *)
FairStart == 2 * Tick

FairInit ==
  /\ chatId = Null
  /\ messages = << >>
  /\ isActive = FALSE
  /\ variables = << >>
  /\ createdAt = Null
  /\ shouldResetChat = FALSE
  /\ history = << >>
  /\ storage = << >>
  /\ events = << >>
  /\ now = FairStart
  /\ uiChatEnded = FALSE
  /\ isProcessing = FALSE
  /\ uiErrors = 0
  /\ caller = "ui"
  /\ isChatWidgetOpen = FALSE
  /\ inflight = << >>
  /\ pollTimers = {}
  /\ greetTimers = {}
  /\ last = NoLast
  /\ resetPending = FALSE
  /\ ops = 0
  /\ BusInit
  /\ BackendInit
  /\ PureInit

Earliest(d) == IF d > now THEN now ELSE d

RECURSIVE Elapsed(_)
Elapsed(calls) ==
  IF calls = << >> THEN << >>
  ELSE << IF Head(calls).pc = "delay"
          THEN [Head(calls) EXCEPT !.deadline = Earliest(@)]
          ELSE Head(calls) >> \o Elapsed(Tail(calls))

HorizonPasses ==
  /\ now + Tick > MaxNow
  /\ \/ \E d \in pollTimers \cup greetTimers : d > now
     \/ \E i \in 1..Len(inflight) :
          inflight[i].pc = "delay" /\ inflight[i].deadline > now
  /\ greetTimers' = { Earliest(d) : d \in greetTimers }
  /\ SetWorld([World EXCEPT !.pollTimers = { Earliest(d) : d \in @ },
                            !.inflight = Elapsed(@)])
  /\ UNCHANGED << now, isChatWidgetOpen, ops, caller >>

CreateAnswered ==
  \E i \in 1..Len(inflight) : (\E id \in ChatIds : CreateReturn(i, id)) \/ CreateThrow(i)

SendAnswered ==
  \E i \in 1..Len(inflight) :
     \/ \E data \in SendResponses : SendReturn(i, data)
     \/ \E body \in SendErrorBodies : SendThrow(i, body)

PollAnswered ==
  \E i \in 1..Len(inflight), r \in StatusResponses : PollReturn(i, r)

TimerFires ==
  \/ \E d \in greetTimers : GreetTimerFire(d)
  \/ \E i \in 1..Len(inflight) : SendDelayDone(i)
  \/ \E d \in pollTimers : PollTimerFire(d)

FairNext ==
  \/ ToggleOpen
  \/ ToggleClose
  \/ \E message \in UserTexts : UserSend(message)
  \/ StartNewConversation
  \/ CreateAnswered
  \/ SendAnswered
  \/ PollAnswered
  \/ TimerFires
  \/ TimePasses
  \/ HorizonPasses

(* what the event loop runs without the user: answers and timers *)
Scheduled ==
  CreateAnswered \/ SendAnswered \/ TimerFires \/ TimePasses \/ HorizonPasses

FairSpec ==
  /\ FairInit
  /\ [][FairNext]_vars
  /\ WF_vars(Scheduled)

(* the createChat and sendMessage calls that are awaiting the gateway or    *)
(* the response delay                                                       *)
Exchanges == { i \in 1..Len(inflight) : inflight[i].op \in {"create", "send"} }

(* C37: the busy latch admits one exchange at a time (an exchange is under  *)
(* way only while the latch is set, and never two of them), and a latch     *)
(* that is set is released in the end, whatever the exchange ends in        *)
C37_LatchReleased ==
  /\ [](Cardinality(Exchanges) <= 1)
  /\ [](Exchanges # {} => isProcessing)
  /\ isProcessing ~> ~isProcessing

(* the latch has just been released by a reply, with no exchange left       *)
C37_Witness ==
  /\ ~isProcessing
  /\ Count(events, "messageReceived") = 1
  /\ Exchanges = {}
  /\ isChatWidgetOpen

====
